---- MODULE Spec2Model ----
(***************************************************************************)
(* A model of merveilles-chat's Keycloak bootstrap scripts:                *)
(*   scripts/lib/common.py, scripts/lib/keycloak_admin.py,                 *)
(*   scripts/bootstrap-keycloak.py, scripts/setup.py.                      *)
(* Text is modelled as TLA+ strings, handled character by character with   *)
(* Len, SubSeq and \o, so that strip, splitlines, startswith, split and    *)
(* join are computed the way Python computes them.                         *)
(***************************************************************************)
EXTENDS Integers, Sequences, FiniteSets, TLC

VARIABLES
    \* the env store on its own (SpecEnv)
    envFile,      \* the file: [exists, text]
    envBefore,    \* the file as it was before the last set_env_value
    envCall,      \* the last set_env_value call: [made, key, value]
    envStep,      \* "init" | "set" | "load": the last operation
    envLoaded,    \* the mapping the last load_env returned
    envOps,       \* number of set_env_value calls made
    \* the command wrapper on its own (SpecRun)
    runCall,      \* the last call of run and what the process did
    runRes,       \* what the call returned or raised
    \* the id query on its own (SpecParse)
    idCall,       \* the last call of get_id and the directory's answer
    idRes,        \* what the call returned or raised
    \* main of bootstrap-keycloak.py (Spec)
    pc,           \* the step main is at: "idle", a step name, or "done"
    runs,         \* number of runs of main started
    faults,       \* number of commands that failed or were cut short so far
    argv,         \* the command line: [user, password] ("" when not given)
    host,         \* [docker, running]: docker on PATH, the running containers
    dotenv,       \* the .env file: [exists, text]
    dir,          \* the Keycloak directory: [realms, clients, users, creds]
    log,          \* the commands the run has issued, in order
    cfg,          \* the BootstrapConfig of the run
    secret,       \* the secret load_config returned
    generated,    \* secret_generated of load_config
    uuid,         \* client_uuid / user_id of the ensure call under way
    failure,      \* the exception that ended the run, if one did
    exitCode,     \* what main returned, -1 while it runs
    prev,         \* the directory and .env file as the run found them, and the
                  \* exit code of the run before (-1 when there was none)
    \* a function applied on its own (SpecSecret, SpecClients, SpecRedact)
    fnCall,       \* the call: [made, fn, arg]
    fnRes,        \* what it returned or raised
    \* the operations of KeycloakAdmin (SpecAdmin)
    kaPc,         \* the step of the operation under way, "idle" between two
    kaOp,         \* the operation under way or last made: [name, arg, ...]
    kaDir,        \* the Keycloak directory
    kaBefore,     \* the directory when the operation began
    kaLog,        \* the kcadm argument lists the operation has issued, in order
    kaId,         \* the ids the queries of the operation returned, in order
    kaErr,        \* the exception the operation raised, if it did
    kaFaults,     \* number of commands that went wrong so far
    kaCalls,      \* number of operations begun
    kaListing,    \* the listing the operation read: [returned, stdout]
    \* two processes on one .env file and one directory (SpecRace)
    rcPc,         \* the step each process is at
    rcFile,       \* the .env file: [exists, text]
    rcDir,        \* the Keycloak directory
    rcLines,      \* the lines each process read in set_env_value
    rcRun,        \* what load_config gave each run: [cfg, secret, secret_generated]
    rcStale,      \* whether the file had changed between the read and the
                  \* write of the last set_env_value of each process
    rcLast        \* the process that last wrote the file and the one that
                  \* last updated the client (0: none)

envVars == <<envFile, envBefore, envCall, envStep, envLoaded, envOps>>

runVars == <<runCall, runRes>>

idVars == <<idCall, idRes>>

mainVars ==
    <<pc, runs, faults, argv, host, dotenv, dir, log, cfg, secret,
      generated, uuid, failure, exitCode, prev>>

fnVars == <<fnCall, fnRes>>

adminVars ==
    <<kaPc, kaOp, kaDir, kaBefore, kaLog, kaId, kaErr, kaFaults, kaCalls, kaListing>>

raceVars == <<rcPc, rcFile, rcDir, rcLines, rcRun, rcStale, rcLast>>

vars == <<envVars, runVars, idVars, mainVars, fnVars, adminVars, raceVars>>

(***************************************************************************)
(* Bounds of the model.                                                    *)
(***************************************************************************)
\* number of lines of an initial env file
MaxLines == 2
\* number of set_env_value calls in a behaviour of SpecEnv
MaxEnvOps == 2
\* number of runs of main in a behaviour of Spec
MaxRuns == 2
\* number of commands that fail or are cut short in a behaviour of Spec
MaxFaults == 1

\* number of ensure operations called on a KeycloakAdmin
MaxCalls == 2

(***************************************************************************)
(* Python's str operations.                                                *)
(***************************************************************************)
\* the character of s at i, "" outside s
Ch(s, i) == IF 1 <= i /\ i <= Len(s) THEN SubSeq(s, i, i) ELSE ""

\* the characters str.strip() removes (those the model's texts can hold)
IsSpace(c) == c \in {" ", "\t", "\n", "\r"}

\* s.startswith(p)
startswith(s, p) == Len(p) <= Len(s) /\ SubSeq(s, 1, Len(p)) = p

\* index of the first c in s at or after i, 0 when there is none
RECURSIVE IndexFrom(_, _, _)
IndexFrom(s, c, i) ==
    IF i > Len(s) THEN 0
    ELSE IF Ch(s, i) = c THEN i
    ELSE IndexFrom(s, c, i + 1)

\* c in s
contains(s, c) == IndexFrom(s, c, 1) # 0

RECURSIVE lstrip(_)
lstrip(s) ==
    IF s # "" /\ IsSpace(Ch(s, 1)) THEN lstrip(SubSeq(s, 2, Len(s))) ELSE s

RECURSIVE rstrip(_)
rstrip(s) ==
    IF s # "" /\ IsSpace(Ch(s, Len(s))) THEN rstrip(SubSeq(s, 1, Len(s) - 1)) ELSE s

\* s.strip()
strip(s) == rstrip(lstrip(s))

\* text.splitlines(): the lines between line breaks, no empty last line
\* after a final line break
RECURSIVE splitlines(_)
splitlines(text) ==
    IF text = "" THEN <<>>
    ELSE LET i == IndexFrom(text, "\n", 1) IN
         IF i = 0 THEN <<text>>
         ELSE <<SubSeq(text, 1, i - 1)>> \o splitlines(SubSeq(text, i + 1, Len(text)))

\* sep.join(lines)
RECURSIVE join(_, _)
join(sep, lines) ==
    IF lines = <<>> THEN ""
    ELSE IF Len(lines) = 1 THEN lines[1]
    ELSE lines[1] \o sep \o join(sep, Tail(lines))

\* line.split("=", 1): <<key, value>>, for a line that holds "="
split1(line) ==
    LET i == IndexFrom(line, "=", 1) IN
    <<SubSeq(line, 1, i - 1), SubSeq(line, i + 1, Len(line))>>

(***************************************************************************)
(* Python's dict, as a function on its keys.                               *)
(***************************************************************************)
EmptyDict == [k \in {} |-> ""]

\* d[k] = v
DictSet(d, k, v) == [x \in (DOMAIN d) \cup {k} |-> IF x = k THEN v ELSE d[x]]

\* d.get(k, default)
DictGet(d, k, default) == IF k \in DOMAIN d THEN d[k] ELSE default

(***************************************************************************)
(* The env store: load_env and set_env_value (the three copies in          *)
(* lib/common.py, bootstrap-keycloak.py and setup.py are the same code).   *)
(***************************************************************************)
NoFile == [exists |-> FALSE, text |-> ""]

File(text) == [exists |-> TRUE, text |-> text]

\* a load_env loop in which the first occurrence of a key wins
RECURSIVE load_lines_first(_, _)
load_lines_first(lines, env) ==
    IF lines = <<>> THEN env
    ELSE LET line == strip(Head(lines)) IN
         IF line = "" \/ startswith(line, "#") \/ ~contains(line, "=")
         THEN load_lines_first(Tail(lines), env)
         ELSE LET kv == split1(line) IN
              load_lines_first(Tail(lines),
                               IF kv[1] \in DOMAIN env THEN env
                               ELSE DictSet(env, kv[1], kv[2]))

\* the loop of load_env over the lines read
RECURSIVE load_lines(_, _)
load_lines(lines, env) ==
    IF lines = <<>> THEN env
    ELSE LET line == strip(Head(lines)) IN
         IF line = "" \/ startswith(line, "#") \/ ~contains(line, "=")
         THEN load_lines(Tail(lines), env)
         ELSE LET kv == split1(line) IN
              load_lines(Tail(lines), DictSet(env, kv[1], kv[2]))

load_env(file) ==
    IF ~file.exists THEN EmptyDict
    ELSE load_lines(splitlines(file.text), EmptyDict)

\* a set_env_value loop that stops replacing after the first match
RECURSIVE set_lines_first(_, _, _)
set_lines_first(lines, key, value) ==
    IF lines = <<>> THEN <<>>
    ELSE IF startswith(Head(lines), key \o "=")
         THEN <<key \o "=" \o value>> \o Tail(lines)
         ELSE <<Head(lines)>> \o set_lines_first(Tail(lines), key, value)

\* the loop of set_env_value: every line that starts with key= is replaced
RECURSIVE set_lines(_, _, _)
set_lines(lines, key, value) ==
    IF lines = <<>> THEN <<>>
    ELSE (IF startswith(Head(lines), key \o "=")
          THEN <<key \o "=" \o value>>
          ELSE <<Head(lines)>>) \o set_lines(Tail(lines), key, value)

\* `replaced` of set_env_value
replaced_any(lines, key) ==
    \E i \in 1..Len(lines) : startswith(lines[i], key \o "=")

\* a set_env_value that writes nothing
set_env_value_noop(file, key, value) == file

\* set_env_value: the file it writes
set_env_value(file, key, value) ==
    LET lines == IF file.exists THEN splitlines(file.text) ELSE <<>>
        out   == IF replaced_any(lines, key)
                 THEN set_lines(lines, key, value)
                 ELSE set_lines(lines, key, value) \o <<key \o "=" \o value>>
    IN File(join("\n", out) \o "\n")

(***************************************************************************)
(* Text helpers.                                                           *)
(***************************************************************************)
\* str(n) of a natural number
Digit(n) == SubSeq("0123456789", n + 1, n + 1)

RECURSIVE IntStr(_)
IntStr(n) == IF n < 10 THEN Digit(n) ELSE IntStr(n \div 10) \o Digit(n % 10)

\* sub in s
HasSub(s, sub) ==
    \E i \in 1..(Len(s) - Len(sub) + 1) : SubSeq(s, i, i + Len(sub) - 1) = sub

\* a or b, on strings
OrStr(a, b) == IF a # "" THEN a ELSE b

\* repr of a list of strings: ['a', 'b']
RECURSIVE ReprItems(_)
ReprItems(cmd) ==
    IF cmd = <<>> THEN ""
    ELSE IF Len(cmd) = 1 THEN "'" \o cmd[1] \o "'"
    ELSE "'" \o cmd[1] \o "', " \o ReprItems(Tail(cmd))

ReprList(cmd) == "[" \o ReprItems(cmd) \o "]"

(***************************************************************************)
(* The command wrapper: run of lib/common.py and of bootstrap-keycloak.py. *)
(* A process is what the executable does when started: whether it is       *)
(* found at all, its exit code and what it wrote.                          *)
(***************************************************************************)
Proc(found, rc, out, err) ==
    [found |-> found, returncode |-> rc, stdout |-> out, stderr |-> err]

\* results and exceptions, one record shape for both
Returned(proc) ==
    [raised |-> FALSE, etype |-> "", message |-> "",
     returncode |-> proc.returncode, stdout |-> proc.stdout, stderr |-> proc.stderr]

Raise(etype, message) ==
    [raised |-> TRUE, etype |-> etype, message |-> message,
     returncode |-> 0, stdout |-> "", stderr |-> ""]

\* str() of a CalledProcessError
CalledProcessErrorStr(cmd, rc) ==
    "Command '" \o ReprList(cmd) \o "' returned non-zero exit status "
        \o IntStr(rc) \o "."

\* subprocess.run(cmd, check=check, text=True, capture_output=True)
subprocess_run(cmd, proc, check) ==
    IF ~proc.found THEN Raise("FileNotFoundError", cmd[1])
    ELSE IF check /\ proc.returncode # 0
    THEN [raised |-> TRUE, etype |-> "CalledProcessError",
          message |-> CalledProcessErrorStr(cmd, proc.returncode),
          returncode |-> proc.returncode, stdout |-> proc.stdout,
          stderr |-> proc.stderr]
    ELSE Returned(proc)

\* a failure message that prefers stdout to stderr
failure_message_out_first(cmd, exc) ==
    OrStr(strip(exc.stdout),
          OrStr(strip(exc.stderr),
                "Command failed (" \o IntStr(exc.returncode) \o "): " \o join(" ", cmd)))

\* lib/common.py, run: the message of the BootstrapError for a failed command
failure_message(cmd, exc) ==
    OrStr(strip(exc.stderr),
          OrStr(strip(exc.stdout),
                "Command failed (" \o IntStr(exc.returncode) \o "): " \o join(" ", cmd)))

\* lib/common.py, run
run(cmd, proc, check) ==
    LET r == subprocess_run(cmd, proc, check) IN
    IF r.etype = "FileNotFoundError"
    THEN Raise("BootstrapError", "Missing dependency: " \o cmd[1])
    ELSE IF r.etype = "CalledProcessError"
    THEN Raise("BootstrapError", failure_message(cmd, r))
    ELSE r

\* bootstrap-keycloak.py, run: a failed command's CalledProcessError is
\* raised on as it is
bk_run(cmd, proc, check) ==
    LET r == subprocess_run(cmd, proc, check) IN
    IF r.etype = "FileNotFoundError"
    THEN Raise("BootstrapError", "Missing dependency: " \o cmd[1])
    ELSE r

\* bootstrap-keycloak.py, main: the line logged for an exception
main_message(exc) ==
    IF exc.etype = "CalledProcessError"
    THEN OrStr(strip(exc.stderr), OrStr(strip(exc.stdout), exc.message))
    ELSE exc.message

(***************************************************************************)
(* JSON values and json.loads. A value is a record tagged by its type; an  *)
(* object holds a function from its keys to values.                        *)
(***************************************************************************)
JNull == [t |-> "null"]

JBool(b) == [t |-> "bool", b |-> b]

JNum(n) == [t |-> "num", n |-> n]

JStr(str) == [t |-> "str", s |-> str]

JList(items) == [t |-> "list", items |-> items]

\* an object: its members, and its keys in the order of insertion
JObj(fields, keys) == [t |-> "obj", fields |-> fields, keys |-> keys]

NoFields == [k \in {} |-> JNull]

IsDigit(c) == c # "" /\ HasSub("0123456789", c)

IsJsonSpace(c) == c \in {" ", "\t", "\n", "\r"}

RECURSIVE SkipWs(_, _)
SkipWs(s, i) == IF i <= Len(s) /\ IsJsonSpace(Ch(s, i)) THEN SkipWs(s, i + 1) ELSE i

\* the end of the digits that start at i
RECURSIVE DigitsEnd(_, _)
DigitsEnd(s, i) == IF i <= Len(s) /\ IsDigit(Ch(s, i)) THEN DigitsEnd(s, i + 1) ELSE i

\* int() of a string of digits
RECURSIVE DigitsVal(_)
DigitsVal(d) ==
    IF d = "" THEN 0
    ELSE 10 * DigitsVal(SubSeq(d, 1, Len(d) - 1))
         + (IndexFrom("0123456789", Ch(d, Len(d)), 1) - 1)

ParseFail == [ok |-> FALSE, v |-> JNull, next |-> 0]

Parsed(v, next) == [ok |-> TRUE, v |-> v, next |-> next]

HasAt(s, i, word) ==
    i + Len(word) - 1 <= Len(s) /\ SubSeq(s, i, i + Len(word) - 1) = word

\* a recursive-descent reading of one JSON value that starts at or after i
\* (strings without escapes, numbers without sign, fraction or exponent)
RECURSIVE ParseValue(_, _)
RECURSIVE ParseItems(_, _, _)
RECURSIVE ParseMembers(_, _, _)
ParseValue(s, i) ==
    LET j == SkipWs(s, i)
        c == Ch(s, j)
    IN IF j > Len(s) THEN ParseFail
       ELSE IF c = "[" THEN
            (LET k == SkipWs(s, j + 1) IN
             IF Ch(s, k) = "]" THEN Parsed(JList(<<>>), k + 1)
             ELSE ParseItems(s, k, <<>>))
       ELSE IF c = "{" THEN
            (LET k == SkipWs(s, j + 1) IN
             IF Ch(s, k) = "}" THEN Parsed(JObj(NoFields, <<>>), k + 1)
             ELSE ParseMembers(s, k, JObj(NoFields, <<>>)))
       ELSE IF c = "\"" THEN
            (LET k == IndexFrom(s, "\"", j + 1) IN
             IF k = 0 THEN ParseFail
             ELSE Parsed(JStr(SubSeq(s, j + 1, k - 1)), k + 1))
       ELSE IF IsDigit(c) THEN
            (LET k == DigitsEnd(s, j) IN
             Parsed(JNum(DigitsVal(SubSeq(s, j, k - 1))), k))
       ELSE IF HasAt(s, j, "null") THEN Parsed(JNull, j + 4)
       ELSE IF HasAt(s, j, "true") THEN Parsed(JBool(TRUE), j + 4)
       ELSE IF HasAt(s, j, "false") THEN Parsed(JBool(FALSE), j + 5)
       ELSE ParseFail

\* the items of a list, from the first one or from the one after a comma
ParseItems(s, i, acc) ==
    LET r == ParseValue(s, i) IN
    IF ~r.ok THEN ParseFail
    ELSE LET k == SkipWs(s, r.next) IN
         IF Ch(s, k) = "," THEN ParseItems(s, k + 1, Append(acc, r.v))
         ELSE IF Ch(s, k) = "]" THEN Parsed(JList(Append(acc, r.v)), k + 1)
         ELSE ParseFail

\* the members of an object; a repeated key keeps its last value
ParseMembers(s, i, acc) ==
    LET j == SkipWs(s, i)
        q == IndexFrom(s, "\"", j + 1)
    IN IF Ch(s, j) # "\"" \/ q = 0 THEN ParseFail
       ELSE LET key   == SubSeq(s, j + 1, q - 1)
                colon == SkipWs(s, q + 1)
            IN IF Ch(s, colon) # ":" THEN ParseFail
               ELSE LET r == ParseValue(s, colon + 1) IN
                    IF ~r.ok THEN ParseFail
                    ELSE LET k    == SkipWs(s, r.next)
                             more == JObj(DictSet(acc.fields, key, r.v),
                                          IF key \in DOMAIN acc.fields THEN acc.keys
                                          ELSE Append(acc.keys, key))
                         IN IF Ch(s, k) = "," THEN ParseMembers(s, k + 1, more)
                            ELSE IF Ch(s, k) = "}" THEN Parsed(more, k + 1)
                            ELSE ParseFail

\* json.loads(text): [ok, v]; not ok stands for JSONDecodeError
json_loads(text) ==
    LET r == ParseValue(text, 1) IN
    IF r.ok /\ SkipWs(text, r.next) > Len(text)
    THEN [ok |-> TRUE, v |-> r.v]
    ELSE [ok |-> FALSE, v |-> JNull]

\* Python's truth value of a JSON value
Truthy(v) ==
    IF v.t = "null" THEN FALSE
    ELSE IF v.t = "bool" THEN v.b
    ELSE IF v.t = "num" THEN v.n # 0
    ELSE IF v.t = "str" THEN v.s # ""
    ELSE IF v.t = "list" THEN v.items # <<>>
    ELSE DOMAIN v.fields # {}

\* repr(v) of a JSON value (strings without quotes or escapes in them)
RECURSIVE PyRepr(_)
PyRepr(v) ==
    IF v.t = "str" THEN "'" \o v.s \o "'"
    ELSE IF v.t = "num" THEN IntStr(v.n)
    ELSE IF v.t = "bool" THEN (IF v.b THEN "True" ELSE "False")
    ELSE IF v.t = "null" THEN "None"
    ELSE IF v.t = "list"
    THEN "[" \o join(", ", [i \in 1..Len(v.items) |-> PyRepr(v.items[i])]) \o "]"
    ELSE "{" \o join(", ", [i \in 1..Len(v.keys) |->
                               "'" \o v.keys[i] \o "': " \o PyRepr(v.fields[v.keys[i]])])
             \o "}"

\* str(v) of a JSON value
PyStr(v) == IF v.t = "str" THEN v.s ELSE PyRepr(v)

(***************************************************************************)
(* parse_json, parse_id and get_id.                                        *)
(***************************************************************************)
\* what a function returned or raised
Value(v) == [raised |-> FALSE, etype |-> "", message |-> "", value |-> v]

Error(etype, message) ==
    [raised |-> TRUE, etype |-> etype, message |-> message, value |-> ""]

\* obj.get("id", ""), then: str(value) if value else ""
id_of(obj) ==
    LET value == IF "id" \in DOMAIN obj.fields THEN obj.fields["id"] ELSE JStr("")
    IN IF Truthy(value) THEN PyStr(value) ELSE ""

\* lib/common.py, parse_id (with parse_json)
parse_id(stdout) ==
    LET r == json_loads(OrStr(stdout, "null")) IN
    IF ~r.ok
    THEN Error("BootstrapError", "Unexpected JSON from Keycloak admin command")
    ELSE IF r.v.t = "list" /\ r.v.items # <<>> /\ r.v.items[1].t = "obj"
    THEN Value(id_of(r.v.items[1]))
    ELSE IF r.v.t = "obj" THEN Value(id_of(r.v))
    ELSE Value("")

\* bootstrap-keycloak.py, parse_id
bk_parse_id(stdout) ==
    LET r == json_loads(OrStr(stdout, "[]")) IN
    IF ~r.ok
    THEN Error("BootstrapError", "Unexpected JSON from kcadm while reading IDs")
    ELSE IF r.v.t = "list" /\ r.v.items # <<>> /\ r.v.items[1].t = "obj"
    THEN Value(id_of(r.v.items[1]))
    ELSE Value("")

\* the argument vector of kcadm(args)
kcadm_cmd(container, args) ==
    <<"docker", "exec", container, "/opt/keycloak/bin/kcadm.sh">> \o args

\* the arguments of the listing query of get_id
get_id_args(resource, realm, query_key, query_val) ==
    <<"get", resource, "-r", realm, "-q", query_key \o "=" \o query_val,
      "--fields", "id", "--format", "json">>

\* lib/keycloak_admin.py, KeycloakAdmin.get_id, on the process the query runs
get_id(cmd, proc) ==
    LET result == run(cmd, proc, TRUE) IN
    IF result.raised THEN Error(result.etype, result.message)
    ELSE parse_id(OrStr(result.stdout, ""))

\* bootstrap-keycloak.py, get_id
bk_get_id(cmd, proc) ==
    LET result == bk_run(cmd, proc, TRUE) IN
    IF result.raised THEN Error(result.etype, main_message(result))
    ELSE bk_parse_id(OrStr(result.stdout, ""))

(***************************************************************************)
(* Secrets: is_missing_secret, generate_secret, load_config.               *)
(***************************************************************************)
\* string.ascii_letters + string.digits
alphabet == "abcdefghijklmnopqrstuvwxyzABCDEFGHIJKLMNOPQRSTUVWXYZ0123456789"

\* the default length of generate_secret in bootstrap-keycloak.py
bk_secret_length == 32

\* the default length of generate_secret in lib/common.py
secret_length == 48

RECURSIVE Rep(_, _)
Rep(c, n) == IF n = 0 THEN "" ELSE c \o Rep(c, n - 1)

\* generate_secret(length): `length` characters of the alphabet; the model
\* draws one character at random and the string repeats it
generate_secret(length, c) == Rep(c, length)

\* a test that compares the value as it is
is_missing_secret_raw(value) ==
    value \in {"", "REPLACE_ME", "PASTE_FROM_KEYCLOAK_UI", "__PLACEHOLDER__"}

\* lib/common.py, is_missing_secret
is_missing_secret(value) ==
    strip(value) \in {"", "REPLACE_ME", "PASTE_FROM_KEYCLOAK_UI", "__PLACEHOLDER__"}

\* a test that finds every secret missing
needs_secret_always(value) == TRUE

\* bootstrap-keycloak.py, load_config: the test that decides to generate
needs_secret(value) == value = "" \/ value = "PASTE_FROM_KEYCLOAK_UI"

NoCfg ==
    [container |-> "", server_url |-> "", realm |-> "", client_id |-> "",
     admin_user |-> "", admin_password |-> ""]

\* bootstrap-keycloak.py, load_config, with `fresh` the string that
\* generate_secret returns if it is called
load_config(env_file, fresh) ==
    LET env            == load_env(env_file)
        admin_user     == DictGet(env, "KC_ADMIN", "")
        admin_password == DictGet(env, "KC_ADMIN_PASSWORD", "")
        found          == DictGet(env, "PROSODY_OAUTH_SECRET", "")
        gen            == needs_secret(found)
    IN IF admin_user = "" \/ admin_password = ""
       THEN [exc |-> Error("BootstrapError",
                           "KC_ADMIN and KC_ADMIN_PASSWORD must be set in .env"),
             cfg |-> NoCfg, secret |-> "", secret_generated |-> FALSE,
             env_file |-> env_file]
       ELSE [exc |-> Value(""),
             cfg |-> [container      |-> DictGet(env, "KC_CONTAINER", "chat-idp"),
                      server_url     |-> DictGet(env, "KC_SERVER_URL", "http://localhost:8080"),
                      realm          |-> DictGet(env, "KC_REALM", "chat"),
                      client_id      |-> DictGet(env, "KC_CLIENT_ID", "prosody-backend"),
                      admin_user     |-> admin_user,
                      admin_password |-> admin_password],
             secret |-> IF gen THEN fresh ELSE found,
             secret_generated |-> gen,
             env_file |-> IF gen
                          THEN set_env_value(env_file, "PROSODY_OAUTH_SECRET", fresh)
                          ELSE env_file]

(***************************************************************************)
(* The Keycloak directory behind kcadm.sh, as the scripts use it: realms   *)
(* by name, clients and users by id, each a mapping from field to value;   *)
(* a name is unique, nothing is ever removed.                              *)
(***************************************************************************)
NoDict == [k \in {} |-> EmptyDict]

\* the value that follows flag in args, "" when flag is not there
RECURSIVE ArgAfter(_, _, _)
ArgAfter(a, flag, i) ==
    IF i >= Len(a) THEN ""
    ELSE IF a[i] = flag THEN a[i + 1]
    ELSE ArgAfter(a, flag, i + 1)

\* fields with every `-s field=value` of args applied, in order
RECURSIVE ApplySets(_, _, _)
ApplySets(fields, a, i) ==
    IF i >= Len(a) THEN fields
    ELSE IF a[i] = "-s" /\ contains(a[i + 1], "=")
    THEN ApplySets(DictSet(fields, split1(a[i + 1])[1], split1(a[i + 1])[2]), a, i + 2)
    ELSE ApplySets(fields, a, i + 1)

Range(f) == {f[i] : i \in DOMAIN f}

RECURSIVE SeqOf(_)
SeqOf(S) ==
    IF S = {} THEN <<>>
    ELSE LET x == CHOOSE y \in S : TRUE IN <<x>> \o SeqOf(S \ {x})

\* the JSON text of a listing restricted to the id field
ListingText(ids) ==
    IF ids = <<>> THEN "[ ]"
    ELSE "[ " \o join(", ", [i \in 1..Len(ids) |-> "{\n  \"id\" : \"" \o ids[i] \o "\"\n}"])
              \o " ]"

\* the ids of the entries of table whose field has the value
IdsWhere(table, field, value) ==
    {id \in DOMAIN table : DictGet(table[id], field, "") = value}

Done(d, out) == [proc |-> Proc(TRUE, 0, out, ""), dir |-> d]

Refused(d, why) == [proc |-> Proc(TRUE, 1, "", why \o "\n"), dir |-> d]

RealmDefaults ==
    [f \in {"enabled", "verifyEmail", "loginWithEmailAllowed"} |->
        IF f = "loginWithEmailAllowed" THEN "true" ELSE "false"]

ClientDefaults == [f \in {"secret"} |-> "set-by-keycloak"]

UserDefaults ==
    [f \in {"email", "emailVerified", "requiredActions"} |->
        IF f = "email" THEN "" ELSE IF f = "emailVerified" THEN "false" ELSE "[]"]

\* the JSON text of a listing with the id and the name of every entry
NamedListingText(table, ids) ==
    IF ids = <<>> THEN "[ ]"
    ELSE "[ " \o join(", ", [i \in 1..Len(ids) |->
                                "{\n  \"id\" : \"" \o ids[i] \o "\",\n  \"name\" : \""
                                    \o table[ids[i]]["name"] \o "\"\n}"])
              \o " ]"

\* kcadm.sh get <target> ...: a realm or a role by name, or a listing. The
\* listing of clients and users is filtered by the query, that of groups by
\* a search for a part of the name, that of client scopes is not filtered
KcGet(d, a) ==
    LET target == a[2]
        realm  == ArgAfter(a, "-r", 1)
        query  == ArgAfter(a, "-q", 1)
        table  == IF target = "clients" THEN d.clients ELSE d.users
    IN IF startswith(target, "realms/")
       THEN (IF SubSeq(target, 8, Len(target)) \in DOMAIN d.realms
             THEN Done(d, "{\n  \"realm\" : \"" \o SubSeq(target, 8, Len(target)) \o "\"\n}")
             ELSE Refused(d, "Resource not found for url"))
       ELSE IF realm \notin DOMAIN d.realms THEN Refused(d, "Realm not found.")
       ELSE IF startswith(target, "roles/")
       THEN (IF SubSeq(target, 7, Len(target)) \in DOMAIN d.roles
             THEN Done(d, "{\n  \"name\" : \"" \o SubSeq(target, 7, Len(target)) \o "\"\n}")
             ELSE Refused(d, "Resource not found for url"))
       ELSE IF target = "groups"
       THEN Done(d, NamedListingText(d.groups,
                       SeqOf({id \in DOMAIN d.groups :
                                HasSub(d.groups[id]["name"], split1(query)[2])})))
       ELSE IF target = "client-scopes"
       THEN Done(d, NamedListingText(d.scopes, SeqOf(DOMAIN d.scopes)))
       ELSE Done(d, ListingText(SeqOf(IdsWhere(table, split1(query)[1], split1(query)[2]))))

\* kcadm.sh create <target> ...
KcCreate(d, a) ==
    LET target == a[2]
        realm  == ArgAfter(a, "-r", 1)
    IN IF target = "realms"
       THEN (LET f == ApplySets(RealmDefaults, a, 1) IN
             IF f["realm"] \in DOMAIN d.realms
             THEN Refused(d, "Conflict detected. See logs for details")
             ELSE Done([d EXCEPT !.realms = DictSet(d.realms, f["realm"], f)], ""))
       ELSE IF realm \notin DOMAIN d.realms THEN Refused(d, "Realm not found.")
       ELSE IF target = "clients"
       THEN (LET f  == ApplySets(ClientDefaults, a, 1)
                 id == "c-" \o IntStr(Cardinality(DOMAIN d.clients) + 1)
             IN IF IdsWhere(d.clients, "clientId", f["clientId"]) # {}
                THEN Refused(d, "Client " \o f["clientId"] \o " already exists")
                ELSE Done([d EXCEPT !.clients = DictSet(d.clients, id, f)], ""))
       ELSE IF target = "roles"
       THEN (LET f == ApplySets(EmptyDict, a, 1) IN
             IF f["name"] \in DOMAIN d.roles
             THEN Refused(d, "Role with name " \o f["name"] \o " already exists")
             ELSE Done([d EXCEPT !.roles = DictSet(d.roles, f["name"], f)], ""))
       ELSE IF target = "groups"
       THEN (LET f  == ApplySets(EmptyDict, a, 1)
                 id == "g-" \o IntStr(Cardinality(DOMAIN d.groups) + 1)
             IN IF IdsWhere(d.groups, "name", f["name"]) # {}
                THEN Refused(d, "Top level group named '" \o f["name"] \o "' already exists.")
                ELSE Done([d EXCEPT !.groups = DictSet(d.groups, id, f)], ""))
       ELSE IF target = "client-scopes"
       THEN (LET f  == ApplySets(EmptyDict, a, 1)
                 id == "s-" \o IntStr(Cardinality(DOMAIN d.scopes) + 1)
             IN IF IdsWhere(d.scopes, "name", f["name"]) # {}
                THEN Refused(d, "Client Scope " \o f["name"] \o " already exists")
                ELSE Done([d EXCEPT !.scopes = DictSet(d.scopes, id, f)], ""))
       ELSE (LET f  == ApplySets(UserDefaults, a, 1)
                 id == "u-" \o IntStr(Cardinality(DOMAIN d.users) + 1)
             IN IF IdsWhere(d.users, "username", f["username"]) # {}
                THEN Refused(d, "User exists with same username")
                ELSE Done([d EXCEPT !.users = DictSet(d.users, id, f)], ""))

\* a table without the entry id
Without(table, id) == [k \in DOMAIN table \ {id} |-> table[k]]

\* kcadm.sh delete <kind>/<name or id> ...
KcDelete(d, a) ==
    LET slash == IndexFrom(a[2], "/", 1)
        kind  == SubSeq(a[2], 1, slash - 1)
        id    == SubSeq(a[2], slash + 1, Len(a[2]))
        field == IF kind = "client-scopes" THEN "scopes" ELSE kind
    IN IF field \in DOMAIN d /\ id \in DOMAIN d[field]
       THEN Done([d EXCEPT ![field] = Without(d[field], id)], "")
       ELSE Refused(d, "Resource not found for url")

\* kcadm.sh update <kind>/<name or id> ...
KcUpdate(d, a) ==
    LET slash == IndexFrom(a[2], "/", 1)
        kind  == SubSeq(a[2], 1, slash - 1)
        id    == SubSeq(a[2], slash + 1, Len(a[2]))
    IN IF kind = "realms"
       THEN (IF id \in DOMAIN d.realms
             THEN Done([d EXCEPT !.realms[id] = ApplySets(d.realms[id], a, 1)], "")
             ELSE Refused(d, "Resource not found for url"))
       ELSE IF kind = "clients"
       THEN (IF id \in DOMAIN d.clients
             THEN Done([d EXCEPT !.clients[id] = ApplySets(d.clients[id], a, 1)], "")
             ELSE Refused(d, "Resource not found for url"))
       ELSE (IF id \in DOMAIN d.users
             THEN Done([d EXCEPT !.users[id] = ApplySets(d.users[id], a, 1)], "")
             ELSE Refused(d, "Resource not found for url"))

\* kcadm.sh set-password ...
KcSetPassword(d, a) ==
    LET username == ArgAfter(a, "--username", 1) IN
    IF IdsWhere(d.users, "username", username) = {}
    THEN Refused(d, "User not found for username: " \o username)
    ELSE Done([d EXCEPT !.creds =
                   DictSet(d.creds, username,
                           [password  |-> ArgAfter(a, "--new-password", 1),
                            temporary |-> ArgAfter(a, "--temporary", 1)])], "")

\* what kcadm.sh does with its arguments: [proc, dir]
KcExec(d, a) ==
    IF a[1] = "config" THEN Done(d, "")
    ELSE IF a[1] = "get" THEN KcGet(d, a)
    ELSE IF a[1] = "create" THEN KcCreate(d, a)
    ELSE IF a[1] = "update" THEN KcUpdate(d, a)
    ELSE IF a[1] = "delete" THEN KcDelete(d, a)
    ELSE KcSetPassword(d, a)

\* a command started on the host: kcadm.sh in the container, or docker ps.
\* fault says what goes wrong with it: "fail" (the command exits 1 and
\* changes nothing), "empty" (a listing comes back empty), "garbled" (the
\* output is no JSON)
HostExec(d, h, cmd, fault) ==
    IF fault = "fail" THEN Refused(d, "error")
    ELSE IF fault = "empty" THEN Done(d, "[ ]")
    ELSE IF fault = "garbled" THEN Done(d, "Resource not found")
    ELSE IF cmd[2] = "ps" THEN Done(d, join("\n", h.running) \o "\n")
    ELSE KcExec(d, SubSeq(cmd, 5, Len(cmd)))

(***************************************************************************)
(* Each specification drives one part of the program; the variables of the *)
(* other parts stay as they are here.                                      *)
(***************************************************************************)
NoCall == [made |-> FALSE, key |-> "", value |-> ""]

EnvIdle ==
    /\ envFile = NoFile
    /\ envBefore = NoFile
    /\ envCall = NoCall
    /\ envStep = "init"
    /\ envLoaded = EmptyDict
    /\ envOps = 0

NoProc == Proc(TRUE, 0, "", "")

NoRunCall == [made |-> FALSE, fn |-> "", cmd |-> <<>>, check |-> TRUE, proc |-> NoProc]

RunIdle ==
    /\ runCall = NoRunCall
    /\ runRes = Returned(NoProc)

NoIdCall == [made |-> FALSE, fn |-> "", proc |-> NoProc]

IdIdle ==
    /\ idCall = NoIdCall
    /\ idRes = Value("")

NoErr == Value("")

NoArgs == [user |-> "", password |-> ""]

EmptyDir ==
    [realms |-> NoDict, roles |-> NoDict, groups |-> NoDict, scopes |-> NoDict,
     clients |-> NoDict, users |-> NoDict, creds |-> NoDict]

NoHost == [docker |-> FALSE, running |-> <<>>]

NoPrev == [dir |-> EmptyDir, dotenv |-> NoFile, exitCode |-> -1]

MainIdle ==
    /\ pc = "idle"
    /\ runs = 0
    /\ faults = 0
    /\ argv = NoArgs
    /\ host = NoHost
    /\ dotenv = NoFile
    /\ dir = EmptyDir
    /\ log = <<>>
    /\ cfg = NoCfg
    /\ secret = ""
    /\ generated = FALSE
    /\ uuid = ""
    /\ failure = NoErr
    /\ exitCode = -1
    /\ prev = NoPrev

NoFnCall == [made |-> FALSE, fn |-> "", arg |-> ""]

FnIdle ==
    /\ fnCall = NoFnCall
    /\ fnRes = Value("")

NoOp == [name |-> "", arg |-> "", secret |-> "", definition |-> ""]

\* no listing read
NoListing == [returned |-> FALSE, stdout |-> ""]

AdminIdle ==
    /\ kaPc = "idle"
    /\ kaOp = NoOp
    /\ kaDir = EmptyDir
    /\ kaBefore = EmptyDir
    /\ kaLog = <<>>
    /\ kaId = <<>>
    /\ kaErr = NoErr
    /\ kaFaults = 0
    /\ kaCalls = 0
    /\ kaListing = NoListing

NoRun == [cfg |-> NoCfg, secret |-> "", secret_generated |-> FALSE]

RaceIdle ==
    /\ rcPc = [p \in {1, 2} |-> "idle"]
    /\ rcFile = NoFile
    /\ rcDir = EmptyDir
    /\ rcLines = [p \in {1, 2} |-> <<>>]
    /\ rcRun = [p \in {1, 2} |-> NoRun]
    /\ rcStale = [p \in {1, 2} |-> FALSE]
    /\ rcLast = [write |-> 0, client |-> 0]

(***************************************************************************)
(* SpecEnv: the env store driven by set_env_value and load_env calls.      *)
(***************************************************************************)
\* the lines an initial file is made of
EnvLinePool ==
    {"A=1", "B=2", " A=2", "", "#B=1", "A", "B=1=2", " #A=1"}

EnvKeys == {"A", "B", "C"}

EnvValues == {"9", "3"}

RECURSIVE SeqsUpTo(_, _)
SeqsUpTo(S, n) ==
    IF n = 0 THEN {<<>>}
    ELSE LET shorter == SeqsUpTo(S, n - 1) IN
         shorter \cup {Append(q, x) : q \in {r \in shorter : Len(r) = n - 1}, x \in S}

\* initial files: no file, or up to MaxLines lines, with or without a final
\* line break
InitEnvFiles ==
    {NoFile}
    \cup {File(join("\n", ls)) : ls \in SeqsUpTo(EnvLinePool, MaxLines)}
    \cup {File(join("\n", ls) \o "\n") : ls \in SeqsUpTo(EnvLinePool, MaxLines)}

InitEnv ==
    /\ envFile \in InitEnvFiles
    /\ envBefore = envFile
    /\ envCall = NoCall
    /\ envStep = "init"
    /\ envLoaded = EmptyDict
    /\ envOps = 0
    /\ RunIdle /\ IdIdle /\ MainIdle /\ FnIdle /\ AdminIdle /\ RaceIdle

SetEnvValue(key, value) ==
    /\ envOps < MaxEnvOps
    /\ envBefore' = envFile
    /\ envFile' = set_env_value(envFile, key, value)
    /\ envCall' = [made |-> TRUE, key |-> key, value |-> value]
    /\ envStep' = "set"
    /\ envOps' = envOps + 1
    /\ UNCHANGED <<envLoaded, runVars, idVars, mainVars, fnVars, adminVars, raceVars>>

LoadEnv ==
    /\ envStep # "load"
    /\ envLoaded' = load_env(envFile)
    /\ envStep' = "load"
    /\ UNCHANGED <<envFile, envBefore, envCall, envOps, runVars, idVars, mainVars, fnVars, adminVars, raceVars>>

NextEnv ==
    \/ \E key \in EnvKeys, value \in EnvValues : SetEnvValue(key, value)
    \/ LoadEnv

SpecEnv == InitEnv /\ [][NextEnv]_vars

(***************************************************************************)
(* Claims about the env store (SpecEnv).                                   *)
(***************************************************************************)
\* the lines of a file, as set_env_value and load_env read them
LinesOf(file) == IF file.exists THEN splitlines(file.text) ELSE <<>>

\* positions of the lines that start with key=
Matches(lines, key) == {i \in 1..Len(lines) : startswith(lines[i], key \o "=")}

Min(S) == CHOOSE x \in S : \A y \in S : x <= y

Max(S) == CHOOSE x \in S : \A y \in S : y <= x

C5_WitnessChain ==
    /\ envCall.made /\ envCall.key = "C"
    /\ envBefore = File("A=1\nB=9\n") /\ envFile = File("A=1\nB=9\nC=3\n")

\* C6 as stated: after set_env_value the file ends with exactly one line
\* break: its last character is a line break and the one before it is not.
C6_ExactlyOneFinalNewline ==
    envCall.made =>
        LET t == envFile.text IN
        /\ envFile.exists
        /\ Len(t) >= 1 /\ Ch(t, Len(t)) = "\n"
        /\ (Len(t) >= 2 => Ch(t, Len(t) - 1) # "\n")

\* C7 as stated: after set_env_value(path, key, value), load_env(path) maps
\* key to exactly value.
C7_RoundTrip ==
    (envCall.made /\ envStep = "load") =>
        /\ envCall.key \in DOMAIN envLoaded
        /\ envLoaded[envCall.key] = envCall.value

\* the lines load_env takes an assignment from: surrounding whitespace
\* removed, then not empty, not a comment, and holding "="
Assigns(line) ==
    LET l == strip(line) IN l # "" /\ ~startswith(l, "#") /\ contains(l, "=")

\* C8: load_env returns the empty mapping for a missing file; otherwise its
\* keys are exactly the keys of the lines that are non-blank, are no comment
\* and hold "=", each split at its first "=" only, and a key on several
\* lines has the value of its last occurrence.
C8_LoadEnv ==
    envStep = "load" =>
        LET ls   == LinesOf(envFile)
            as   == {i \in 1..Len(ls) : Assigns(ls[i])}
            l(i) == strip(ls[i])
            eq(i) == IndexFrom(l(i), "=", 1)
            key(i) == SubSeq(l(i), 1, eq(i) - 1)
            val(i) == SubSeq(l(i), eq(i) + 1, Len(l(i)))
        IN /\ ~envFile.exists => envLoaded = EmptyDict
           /\ DOMAIN envLoaded = {key(i) : i \in as}
           /\ \A i \in as : ~contains(key(i), "=")
           /\ \A k \in DOMAIN envLoaded :
                  envLoaded[k] = val(Max({i \in as : key(i) = k}))

\* C8 witness: a load of a file that holds a key on two lines with different
\* values, and a load of a line whose value holds "=".
C8_Witness ==
    /\ envStep = "load"
    /\ LET ls == LinesOf(envFile)
           as == {i \in 1..Len(ls) : Assigns(ls[i])}
       IN \E i, j \in as :
              /\ i < j
              /\ split1(strip(ls[i]))[1] = split1(strip(ls[j]))[1]
              /\ split1(strip(ls[i]))[2] # split1(strip(ls[j]))[2]
              /\ contains(split1(strip(ls[j]))[2], "=")

(***************************************************************************)
(* SpecRun: one call of run, of lib/common.py or of bootstrap-keycloak.py, *)
(* on a process that is found or not, exits with some code and writes some *)
(* output.                                                                 *)
(***************************************************************************)
RunCmds == {<<"docker", "ps">>, kcadm_cmd("chat-idp", <<"get", "realms/chat">>)}

RunCodes == {0, 1, 2}

RunStdouts == {"", "out\n", " \n"}

RunStderrs == {"", " err \n", "\n"}

RunProcs ==
    {Proc(found, rc, out, err) :
        found \in BOOLEAN, rc \in RunCodes, out \in RunStdouts, err \in RunStderrs}

InitRun == EnvIdle /\ RunIdle /\ IdIdle /\ MainIdle /\ FnIdle /\ AdminIdle /\ RaceIdle

\* run(cmd, logger, check) of lib/common.py
Run(cmd, proc, check) ==
    /\ ~runCall.made
    /\ runCall' = [made |-> TRUE, fn |-> "run", cmd |-> cmd, check |-> check, proc |-> proc]
    /\ runRes' = run(cmd, proc, check)
    /\ UNCHANGED <<envVars, idVars, mainVars, fnVars, adminVars, raceVars>>

\* run(cmd, check) of bootstrap-keycloak.py
BkRun(cmd, proc, check) ==
    /\ ~runCall.made
    /\ runCall' = [made |-> TRUE, fn |-> "bk_run", cmd |-> cmd, check |-> check, proc |-> proc]
    /\ runRes' = bk_run(cmd, proc, check)
    /\ UNCHANGED <<envVars, idVars, mainVars, fnVars, adminVars, raceVars>>

NextRun ==
    \/ \E cmd \in RunCmds, proc \in RunProcs, check \in BOOLEAN : Run(cmd, proc, check)
    \/ \E cmd \in RunCmds, proc \in RunProcs, check \in BOOLEAN : BkRun(cmd, proc, check)

SpecRun == InitRun /\ [][NextRun]_vars

IdStdouts ==
    {"", "[ ]", "[]",
     "[ {\n  \"id\" : \"c-1\"\n} ]",
     "[ {\n  \"id\" : \"c-1\"\n}, {\n  \"id\" : \"c-2\"\n} ]",
     "[{\"id\": 7}]", "[{\"id\": 0}]", "[{\"id\": \"\"}]", "[{\"id\": null}]",
     "[{}]", "[{\"clientId\": \"prosody-backend\"}]",
     "{\"id\": \"c-1\"}", "{}", "{\"error\": \"unknown_error\"}",
     "42", "0", "\"c-1\"", "\"\"", "null", "true", "false",
     "[1]", "[\"c-1\"]", "[null, {\"id\": \"c-1\"}]", "[[{\"id\": \"c-1\"}]]",
     "Resource not found", "[ {\n  \"id\" : \"c-1\"", "[{\"id\": \"c-1\"},]",
     "<html>", "[{\"id\": \"c-1\"}] trailing"}

IdProcs == {Proc(TRUE, rc, out, "") : rc \in {0, 1}, out \in IdStdouts}

IdCmd == kcadm_cmd("chat-idp", get_id_args("clients", "chat", "clientId", "prosody-backend"))

InitParse == EnvIdle /\ RunIdle /\ IdIdle /\ MainIdle /\ FnIdle /\ AdminIdle /\ RaceIdle

\* KeycloakAdmin.get_id
GetId(proc) ==
    /\ ~idCall.made
    /\ idCall' = [made |-> TRUE, fn |-> "get_id", proc |-> proc]
    /\ idRes' = get_id(IdCmd, proc)
    /\ UNCHANGED <<envVars, runVars, mainVars, fnVars, adminVars, raceVars>>

\* get_id of bootstrap-keycloak.py
BkGetId(proc) ==
    /\ ~idCall.made
    /\ idCall' = [made |-> TRUE, fn |-> "bk_get_id", proc |-> proc]
    /\ idRes' = bk_get_id(IdCmd, proc)
    /\ UNCHANGED <<envVars, runVars, mainVars, fnVars, adminVars, raceVars>>

NextParse ==
    \/ \E proc \in IdProcs : GetId(proc)
    \/ \E proc \in IdProcs : BkGetId(proc)

SpecParse == InitParse /\ [][NextParse]_vars

\* a response in the expected format: a JSON list of objects
IsListing(text) ==
    LET r == json_loads(text) IN
    /\ r.ok /\ r.v.t = "list"
    /\ \A i \in 1..Len(r.v.items) : r.v.items[i].t = "obj"

\* a response that is not the expected format: not valid JSON, or valid
\* JSON that is a scalar, a string, or a list whose first element is no object
IsMalformed(text) ==
    LET r == json_loads(text) IN
    \/ ~r.ok
    \/ r.v.t \in {"null", "bool", "num", "str"}
    \/ r.v.t = "list" /\ r.v.items # <<>> /\ r.v.items[1].t # "obj"

\* C4 as stated: get_id / parse_id returns "" without raising for a listing
\* with zero entries, returns the id of the first entry when there is a
\* match, and raises for every response that is not the expected format: it
\* never returns "" for a malformed response.
C4_ParseId ==
    (idCall.made /\ idCall.proc.returncode = 0 /\ idCall.proc.stdout # "") =>
        LET text == idCall.proc.stdout
            r    == json_loads(text)
        IN /\ (IsListing(text) /\ r.v.items = <<>>) =>
                  (~idRes.raised /\ idRes.value = "")
           /\ (IsListing(text) /\ r.v.items # <<>>
                 /\ "id" \in DOMAIN r.v.items[1].fields
                 /\ r.v.items[1].fields["id"].t = "str") =>
                  (~idRes.raised /\ idRes.value = r.v.items[1].fields["id"].s)
           /\ IsMalformed(text) => idRes.raised

(***************************************************************************)
(* Spec: main of bootstrap-keycloak.py, one action per step of the run,    *)
(* against the directory and the .env file; a finished run may be         *)
(* followed by another one with the same arguments.                       *)
(***************************************************************************)
SECRET_KEY == "PROSODY_OAUTH_SECRET"

AdminLines == "KC_ADMIN=admin\nKC_ADMIN_PASSWORD=pw\n"

SecretLines ==
    {"",
     "PROSODY_OAUTH_SECRET=s3cr3t\n",
     "PROSODY_OAUTH_SECRET= s3 \n",
     "PROSODY_OAUTH_SECRET=\n",
     "PROSODY_OAUTH_SECRET=   \n",
     "PROSODY_OAUTH_SECRET=PASTE_FROM_KEYCLOAK_UI\n",
     "PROSODY_OAUTH_SECRET=REPLACE_ME\n",
     "PROSODY_OAUTH_SECRET=__PLACEHOLDER__\n",
     "PROSODY_OAUTH_SECRET=\n  PROSODY_OAUTH_SECRET=PASTE_FROM_KEYCLOAK_UI\n"}

InitDotenvs ==
    {NoFile, File("KC_ADMIN=admin\n")} \cup {File(AdminLines \o l) : l \in SecretLines}

InitArgs ==
    {[user |-> "", password |-> ""], [user |-> "jim", password |-> ""],
     [user |-> "jim", password |-> "pw"], [user |-> "a@b.c", password |-> "pw"]}

InitHosts ==
    {[docker |-> FALSE, running |-> <<>>],
     [docker |-> TRUE, running |-> <<"chat-db">>],
     [docker |-> TRUE, running |-> <<"chat-db", "chat-idp">>]}

\* a realm, a client and a user whose managed fields have drifted
DriftedRealm ==
    [f \in {"realm", "enabled", "verifyEmail", "loginWithEmailAllowed"} |->
        IF f = "realm" THEN "chat" ELSE IF f = "verifyEmail" THEN "true" ELSE "false"]

DriftedClient ==
    [f \in {"clientId", "enabled", "publicClient", "secret"} |->
        IF f = "clientId" THEN "prosody-backend"
        ELSE IF f = "enabled" THEN "false"
        ELSE IF f = "publicClient" THEN "true" ELSE "old"]

DriftedUser ==
    [f \in {"username", "enabled", "email", "emailVerified", "requiredActions"} |->
        IF f = "username" THEN "jim"
        ELSE IF f = "enabled" THEN "false"
        ELSE IF f = "email" THEN "jim@example.org"
        ELSE IF f = "emailVerified" THEN "false" ELSE "[\"UPDATE_PASSWORD\"]"]

InitDirs ==
    {EmptyDir,
     [EmptyDir EXCEPT !.realms = DictSet(NoDict, "chat", DriftedRealm)],
     [EmptyDir EXCEPT !.realms  = DictSet(NoDict, "chat", DriftedRealm),
                      !.clients = DictSet(NoDict, "c-1", DriftedClient),
                      !.users   = DictSet(NoDict, "u-1", DriftedUser)]}

GenChars == {"x", "Q"}

\* what can go wrong with a command: it exits non-zero without effect, the
\* run is interrupted before or after the command took effect
Faults == {"none", "fail", "interrupt", "interrupted"}

\* and, for a listing query, an empty or unparseable answer
ListingFaults == Faults \cup {"empty", "garbled"}

Init ==
    /\ EnvIdle /\ RunIdle /\ IdIdle /\ FnIdle /\ AdminIdle /\ RaceIdle
    /\ pc = "start"
    /\ runs = 1
    /\ faults = 0
    /\ argv \in InitArgs
    /\ host \in InitHosts
    /\ dotenv \in InitDotenvs
    /\ dir \in InitDirs
    /\ log = <<>>
    /\ cfg = NoCfg
    /\ secret = ""
    /\ generated = FALSE
    /\ uuid = ""
    /\ failure = NoErr
    /\ exitCode = -1
    /\ prev = [dir |-> dir, dotenv |-> dotenv, exitCode |-> -1]

\* run(cmd, check) on the host: [res, dir]
Call(d, h, cmd, check, fault) ==
    LET x == HostExec(d, h, cmd, IF fault \in {"interrupt", "interrupted"}
                                 THEN "none" ELSE fault)
    IN [res |-> IF fault \in {"interrupt", "interrupted"}
                THEN Raise("KeyboardInterrupt", "")
                ELSE bk_run(cmd, [x.proc EXCEPT !.found = h.docker], check),
        dir |-> IF fault = "interrupt" THEN d ELSE x.dir]

\* get_id on the host: [res, dir]
CallId(d, h, cmd, fault) ==
    LET x == HostExec(d, h, cmd, IF fault \in {"interrupt", "interrupted"}
                                 THEN "none" ELSE fault)
    IN [res |-> IF fault \in {"interrupt", "interrupted"}
                THEN Error("KeyboardInterrupt", "")
                ELSE bk_get_id(cmd, [x.proc EXCEPT !.found = h.docker]),
        dir |-> x.dir]

\* the exception of a result of run, with the message main logs for it
ExcOf(r) == Error(r.etype, main_message(r))

\* an except clause that lets the step be tried again
abort_retry(exc) ==
    /\ pc' = pc
    /\ failure' = exc
    /\ exitCode' = -1

\* except clauses that all return 1
abort_generic(exc) ==
    /\ pc' = "done"
    /\ failure' = exc
    /\ exitCode' = 1

\* main, the except clauses: the run ends with the exception
Abort(exc) ==
    /\ pc' = "done"
    /\ failure' = exc
    /\ exitCode' = IF exc.etype = "KeyboardInterrupt" THEN 130 ELSE 1

\* main returns code without an exception
Return(code) ==
    /\ pc' = "done"
    /\ exitCode' = code
    /\ UNCHANGED failure

Goto(step) ==
    /\ pc' = step
    /\ UNCHANGED <<failure, exitCode>>

\* the command cmd is issued at step, with the effect on the directory
Issue(step, cmd, fault, d) ==
    /\ pc = step
    /\ fault # "none" => faults < MaxFaults
    /\ faults' = IF fault = "none" THEN faults ELSE faults + 1
    /\ log' = Append(log, cmd)
    /\ dir' = d

Frame ==
    UNCHANGED <<runs, argv, host, dotenv, cfg, secret, generated, prev,
                envVars, runVars, idVars, fnVars, adminVars, raceVars>>

\* main, lines 406-415
Start ==
    /\ pc = "start"
    /\ IF argv.user # "" /\ argv.password = "" THEN Return(1)
       ELSE IF ~dotenv.exists THEN Return(1)
       ELSE Goto("load_config")
    /\ UNCHANGED <<faults, log, dir, uuid>>
    /\ Frame

\* what can go wrong in load_config: the run is interrupted before or after
\* the .env file is written, or the file cannot be written
ConfigFaults == {"none", "interrupt", "interrupted", "unwritable"}

LoadConfig ==
    /\ pc = "load_config"
    /\ \E c \in GenChars, fault \in ConfigFaults :
       \E r \in {load_config(dotenv, generate_secret(bk_secret_length, c))} :
        /\ fault # "none" => faults < MaxFaults
        /\ fault = "unwritable" => r.secret_generated
        /\ faults' = IF fault = "none" THEN faults ELSE faults + 1
        /\ IF fault = "interrupt"
           THEN /\ Abort(Error("KeyboardInterrupt", ""))
                /\ UNCHANGED <<cfg, secret, generated, dotenv>>
           ELSE IF fault = "interrupted"
           THEN /\ Abort(Error("KeyboardInterrupt", ""))
                /\ dotenv' = r.env_file
                /\ UNCHANGED <<cfg, secret, generated>>
           ELSE IF fault = "unwritable"
           THEN /\ Abort(Error("Exception", "Unexpected error: [Errno 13] Permission denied"))
                /\ UNCHANGED <<cfg, secret, generated, dotenv>>
           ELSE IF r.exc.raised
           THEN /\ Abort(r.exc)
                /\ UNCHANGED <<cfg, secret, generated, dotenv>>
           ELSE /\ Goto("validate_runtime")
                /\ cfg' = r.cfg
                /\ secret' = r.secret
                /\ generated' = r.secret_generated
                /\ dotenv' = r.env_file
    /\ UNCHANGED <<runs, argv, host, dir, log, uuid, prev,
                   envVars, runVars, idVars, fnVars, adminVars, raceVars>>

ValidateRuntime ==
    /\ pc = "validate_runtime"
    /\ IF ~host.docker
       THEN /\ Abort(Error("BootstrapError", "docker is required but was not found"))
            /\ UNCHANGED <<faults, log, dir, uuid>>
            /\ Frame
       ELSE \E fault \in Faults :
            \E cmd \in {<<"docker", "ps", "--format", "{{.Names}}">>} :
            \E c \in {Call(dir, host, cmd, TRUE, fault)} :
            LET ps == c.res
                running == {strip(line) : line \in
                              {l \in Range(splitlines(ps.stdout)) : strip(l) # ""}}
            IN /\ Issue("validate_runtime", cmd, fault, c.dir)
               /\ IF ps.raised THEN Abort(ExcOf(ps))
                  ELSE IF cfg.container \notin running
                  THEN Abort(Error("BootstrapError",
                                   "Container '" \o cfg.container
                                       \o "' is not running. Start your compose stack first."))
                  ELSE Goto("authenticate")
               /\ UNCHANGED uuid
               /\ Frame

Authenticate ==
    /\ pc = "authenticate"
    /\ \E fault \in Faults :
       \E cmd \in {kcadm_cmd(cfg.container,
                             <<"config", "credentials", "--server", cfg.server_url,
                               "--realm", "master", "--user", cfg.admin_user,
                               "--password", cfg.admin_password>>)} :
       \E c \in {Call(dir, host, cmd, FALSE, fault)} :
       LET result == c.res IN
           /\ Issue("authenticate", cmd, fault, c.dir)
           /\ IF result.raised THEN Abort(ExcOf(result))
              ELSE IF result.returncode # 0
              THEN Abort(Error("BootstrapError",
                               OrStr(strip(result.stderr),
                                     OrStr(strip(result.stdout), "Keycloak auth failed"))))
              ELSE Goto("realm_get")
           /\ UNCHANGED uuid
           /\ Frame

\* ensure_realm: the existence check
RealmGet ==
    /\ pc = "realm_get"
    /\ \E fault \in Faults :
       \E cmd \in {kcadm_cmd(cfg.container, <<"get", "realms/" \o cfg.realm>>)} :
       \E c \in {Call(dir, host, cmd, FALSE, fault)} :
           /\ Issue("realm_get", cmd, fault, c.dir)
           /\ IF c.res.raised THEN Abort(ExcOf(c.res))
              ELSE IF c.res.returncode # 0 THEN Goto("realm_create")
              ELSE Goto("realm_update")
           /\ UNCHANGED uuid
           /\ Frame

RealmCreate ==
    /\ pc = "realm_create"
    /\ \E fault \in Faults :
       \E cmd \in {kcadm_cmd(cfg.container,
                             <<"create", "realms", "-s", "realm=" \o cfg.realm,
                               "-s", "enabled=true">>)} :
       \E c \in {Call(dir, host, cmd, TRUE, fault)} :
           /\ Issue("realm_create", cmd, fault, c.dir)
           /\ IF c.res.raised THEN Abort(ExcOf(c.res)) ELSE Goto("realm_update")
           /\ UNCHANGED uuid
           /\ Frame

RealmUpdate ==
    /\ pc = "realm_update"
    /\ \E fault \in Faults :
       \E cmd \in {kcadm_cmd(cfg.container,
                             <<"update", "realms/" \o cfg.realm, "-s", "enabled=true",
                               "-s", "verifyEmail=false",
                               "-s", "loginWithEmailAllowed=true">>)} :
       \E c \in {Call(dir, host, cmd, TRUE, fault)} :
           /\ Issue("realm_update", cmd, fault, c.dir)
           /\ IF c.res.raised THEN Abort(ExcOf(c.res)) ELSE Goto("client_get")
           /\ UNCHANGED uuid
           /\ Frame

\* a client query that asks for the user instead
client_query_users ==
    kcadm_cmd(cfg.container, get_id_args("users", cfg.realm, "username", argv.user))

ClientQuery ==
    kcadm_cmd(cfg.container, get_id_args("clients", cfg.realm, "clientId", cfg.client_id))

\* ensure_client: the first get_id
ClientGet ==
    /\ pc = "client_get"
    /\ \E fault \in ListingFaults :
       \E c \in {CallId(dir, host, ClientQuery, fault)} :
        /\ Issue("client_get", ClientQuery, fault, c.dir)
        /\ IF c.res.raised THEN Abort(c.res) /\ UNCHANGED uuid
           ELSE /\ uuid' = c.res.value
                /\ IF c.res.value = "" THEN Goto("client_create")
                   ELSE Goto("client_update")
        /\ Frame

ClientCreate ==
    /\ pc = "client_create"
    /\ \E fault \in Faults :
       \E cmd \in {kcadm_cmd(cfg.container,
                             <<"create", "clients", "-r", cfg.realm,
                               "-s", "clientId=" \o cfg.client_id,
                               "-s", "protocol=openid-connect",
                               "-s", "enabled=true",
                               "-s", "publicClient=false",
                               "-s", "directAccessGrantsEnabled=true",
                               "-s", "standardFlowEnabled=false",
                               "-s", "serviceAccountsEnabled=false">>)} :
       \E c \in {Call(dir, host, cmd, TRUE, fault)} :
           /\ Issue("client_create", cmd, fault, c.dir)
           /\ IF c.res.raised THEN Abort(ExcOf(c.res)) ELSE Goto("client_reget")
           /\ UNCHANGED uuid
           /\ Frame

\* ensure_client: the get_id after the create
ClientReget ==
    /\ pc = "client_reget"
    /\ \E fault \in ListingFaults :
       \E c \in {CallId(dir, host, ClientQuery, fault)} :
        /\ Issue("client_reget", ClientQuery, fault, c.dir)
        /\ IF c.res.raised THEN Abort(c.res) /\ UNCHANGED uuid
           ELSE /\ uuid' = c.res.value
                /\ IF c.res.value = ""
                   THEN Abort(Error("BootstrapError",
                                    "Unable to resolve client UUID for '"
                                        \o cfg.client_id \o "'"))
                   ELSE Goto("client_update")
        /\ Frame

ClientUpdate ==
    /\ pc = "client_update"
    /\ \E fault \in Faults :
       \E cmd \in {kcadm_cmd(cfg.container,
                             <<"update", "clients/" \o uuid, "-r", cfg.realm,
                               "-s", "protocol=openid-connect",
                               "-s", "enabled=true",
                               "-s", "publicClient=false",
                               "-s", "directAccessGrantsEnabled=true",
                               "-s", "standardFlowEnabled=false",
                               "-s", "serviceAccountsEnabled=false",
                               "-s", "secret=" \o secret>>)} :
       \E c \in {Call(dir, host, cmd, TRUE, fault)} :
           /\ Issue("client_update", cmd, fault, c.dir)
           /\ IF c.res.raised THEN Abort(ExcOf(c.res))
              ELSE IF argv.user # "" THEN Goto("user_get")
              ELSE Return(0)
           /\ UNCHANGED uuid
           /\ Frame

UserQuery ==
    kcadm_cmd(cfg.container, get_id_args("users", cfg.realm, "username", argv.user))

\* ensure_user: the first get_id
UserGet ==
    /\ pc = "user_get"
    /\ \E fault \in ListingFaults :
       \E c \in {CallId(dir, host, UserQuery, fault)} :
        /\ Issue("user_get", UserQuery, fault, c.dir)
        /\ IF c.res.raised THEN Abort(c.res) /\ UNCHANGED uuid
           ELSE /\ uuid' = c.res.value
                /\ IF c.res.value = "" THEN Goto("user_create")
                   ELSE Goto("user_update")
        /\ Frame

UserCreate ==
    /\ pc = "user_create"
    /\ \E fault \in Faults :
       \E cmd \in {kcadm_cmd(cfg.container,
                             <<"create", "users", "-r", cfg.realm,
                               "-s", "username=" \o argv.user,
                               "-s", "enabled=true">>)} :
       \E c \in {Call(dir, host, cmd, TRUE, fault)} :
           /\ Issue("user_create", cmd, fault, c.dir)
           /\ IF c.res.raised THEN Abort(ExcOf(c.res)) ELSE Goto("user_reget")
           /\ UNCHANGED uuid
           /\ Frame

\* ensure_user: the get_id after the create
UserReget ==
    /\ pc = "user_reget"
    /\ \E fault \in ListingFaults :
       \E c \in {CallId(dir, host, UserQuery, fault)} :
        /\ Issue("user_reget", UserQuery, fault, c.dir)
        /\ IF c.res.raised THEN Abort(c.res) /\ UNCHANGED uuid
           ELSE /\ uuid' = c.res.value
                /\ IF c.res.value = ""
                   THEN Abort(Error("BootstrapError",
                                    "Unable to resolve user ID for '" \o argv.user \o "'"))
                   ELSE Goto("user_update")
        /\ Frame

user_email(username) ==
    IF contains(username, "@") THEN username ELSE username \o "@localhost"

UserUpdate ==
    /\ pc = "user_update"
    /\ \E fault \in Faults :
       \E cmd \in {kcadm_cmd(cfg.container,
                             <<"update", "users/" \o uuid, "-r", cfg.realm,
                               "-s", "enabled=true",
                               "-s", "email=" \o user_email(argv.user),
                               "-s", "emailVerified=true",
                               "-s", "requiredActions=[]">>)} :
       \E c \in {Call(dir, host, cmd, TRUE, fault)} :
           /\ Issue("user_update", cmd, fault, c.dir)
           /\ IF c.res.raised THEN Abort(ExcOf(c.res)) ELSE Goto("user_password")
           /\ UNCHANGED uuid
           /\ Frame

UserPassword ==
    /\ pc = "user_password"
    /\ \E fault \in Faults :
       \E cmd \in {kcadm_cmd(cfg.container,
                             <<"set-password", "-r", cfg.realm,
                               "--username", argv.user,
                               "--new-password", argv.password,
                               "--temporary", "false">>)} :
       \E c \in {Call(dir, host, cmd, TRUE, fault)} :
           /\ Issue("user_password", cmd, fault, c.dir)
           /\ IF c.res.raised THEN Abort(ExcOf(c.res)) ELSE Return(0)
           /\ UNCHANGED uuid
           /\ Frame

\* the script is started again, with the same arguments
Rerun ==
    /\ pc = "done"
    /\ runs < MaxRuns
    /\ runs' = runs + 1
    /\ pc' = "start"
    /\ prev' = [dir |-> dir, dotenv |-> dotenv, exitCode |-> exitCode]
    /\ log' = <<>>
    /\ cfg' = NoCfg
    /\ secret' = ""
    /\ generated' = FALSE
    /\ uuid' = ""
    /\ failure' = NoErr
    /\ exitCode' = -1
    /\ UNCHANGED <<faults, argv, host, dotenv, dir, envVars, runVars, idVars, fnVars, adminVars, raceVars>>

Next ==
    \/ Start
    \/ LoadConfig
    \/ ValidateRuntime
    \/ Authenticate
    \/ RealmGet
    \/ RealmCreate
    \/ RealmUpdate
    \/ ClientGet
    \/ ClientCreate
    \/ ClientReget
    \/ ClientUpdate
    \/ UserGet
    \/ UserCreate
    \/ UserReget
    \/ UserUpdate
    \/ UserPassword
    \/ Rerun

Spec == Init /\ [][Next]_vars

(***************************************************************************)
(* Claims about a run of main (Spec).                                      *)
(***************************************************************************)
\* the value the run found at the secret key of the .env file
FoundSecret == DictGet(load_env(prev.dotenv), SECRET_KEY, "")

\* some command of the log is a kcadm create
Created(l) == \E i \in DOMAIN l : Len(l[i]) >= 5 /\ l[i][5] = "create"

\* the secret of the configured client in the directory, "" if there is none
ClientSecret ==
    LET ids == IdsWhere(dir.clients, "clientId", cfg.client_id) IN
    IF ids = {} THEN ""
    ELSE DictGet(dir.clients[CHOOSE id \in ids : TRUE], "secret", "")

\* C1: idempotence of a full run. When a run that completed with exit code
\* 0 is followed by a second run with the same .env file and arguments that
\* completes too, the second run issues no create, the directory (its
\* realms, clients and users and every field of them) is as the first run
\* left it, and so is the content of the .env file.
C1_Idempotent ==
    (runs >= 2 /\ prev.exitCode = 0 /\ pc = "done" /\ exitCode = 0)
        => /\ ~Created(log)
           /\ dir = prev.dir
           /\ dotenv = prev.dotenv

\* C2: when the .env file holds a non-empty value that is no placeholder at
\* PROSODY_OAUTH_SECRET, load_config returns exactly that value, reports it
\* as not generated, and the file keeps its content during the whole run.
C2_SuppliedSecretKept ==
    ~is_missing_secret(FoundSecret)
        => /\ dotenv = prev.dotenv
           /\ cfg # NoCfg => (secret = FoundSecret /\ ~generated)

\* a run with a supplied secret has completed and the client carries it
C2_Witness ==
    /\ ~is_missing_secret(FoundSecret)
    /\ pc = "done"
    /\ exitCode = 0
    /\ secret = FoundSecret
    /\ ClientSecret = FoundSecret

\* C3: whenever the value at PROSODY_OAUTH_SECRET is missing (absent, empty,
\* whitespace or one of REPLACE_ME, PASTE_FROM_KEYCLOAK_UI, __PLACEHOLDER__)
\* the run generates a secret of 48 letters and digits, writes it to the
\* .env file under the key, and the client gets the generated value.
C3_MissingSecretGenerated ==
    (is_missing_secret(FoundSecret) /\ cfg # NoCfg)
        => /\ generated
           /\ Len(secret) = secret_length
           /\ \A i \in 1..Len(secret) : contains(alphabet, Ch(secret, i))
           /\ DictGet(load_env(dotenv), SECRET_KEY, "") = secret
           /\ (pc = "done" /\ exitCode = 0) => ClientSecret = secret

\* C10: fail-fast, no retry, no rollback. Once a step of the run has raised,
\* the run is over: its exit code is 1 (130 is the code of an interrupt),
\* no command is issued any more in that run and the directory stays as it
\* is; the step that fails leaves what was created and updated before it.
C10_FailFast ==
    /\ [](failure.raised =>
            /\ pc = "done"
            /\ failure.etype # "KeyboardInterrupt" => exitCode = 1)
    /\ [][(failure.raised /\ runs' = runs) => (log' = log /\ dir' = dir)]_vars
    /\ [][(~failure.raised /\ failure'.raised /\ runs' = runs
              /\ failure'.etype # "KeyboardInterrupt")
            => (dir' = dir /\ Len(log') <= Len(log) + 1)]_vars

\* a run has failed after it created a client, and the client is there
C10_Witness ==
    /\ failure.raised
    /\ failure.etype # "KeyboardInterrupt"
    /\ pc = "done"
    /\ exitCode = 1
    /\ Created(log)
    /\ DOMAIN dir.clients # DOMAIN prev.dir.clients

\* the last command a run issues when every step completes
IsLastCommand(cmd) ==
    /\ Len(cmd) >= 5
    /\ IF argv.user # "" THEN cmd[5] = "set-password"
       ELSE cmd[5] = "update" /\ startswith(cmd[6], "clients/")

\* C11: the exit code of main. It is 0 exactly when every step of the run
\* completed without raising, 130 exactly when the run was interrupted
\* between loading the configuration and the last ensure call, and 1 for
\* every other outcome: a missing .env file, --user without --password,
\* missing KC_ADMIN / KC_ADMIN_PASSWORD, a container that is not running,
\* failed authentication, a failed command, an unresolvable id.
C11_ExitCode ==
    /\ pc # "done" => exitCode = -1
    /\ pc = "done" =>
        /\ exitCode \in {0, 1, 130}
        /\ exitCode = 0 <=>
              (~failure.raised /\ log # <<>> /\ IsLastCommand(log[Len(log)]))
        /\ exitCode = 130 <=> failure.etype = "KeyboardInterrupt"
        /\ (argv.user # "" /\ argv.password = "") => exitCode = 1
        /\ ~dotenv.exists => exitCode = 1
        /\ (failure.raised /\ failure.etype # "KeyboardInterrupt") => exitCode = 1
        /\ (exitCode # 130 /\ (DictGet(load_env(prev.dotenv), "KC_ADMIN", "") = ""
                \/ DictGet(load_env(prev.dotenv), "KC_ADMIN_PASSWORD", "") = ""))
              => exitCode = 1
        /\ (exitCode # 130 /\ "chat-idp" \notin Range(host.running)) => exitCode = 1

\* a run was interrupted after it had issued commands
C11_Witness ==
    /\ pc = "done"
    /\ exitCode = 130
    /\ failure.etype = "KeyboardInterrupt"
    /\ Len(log) >= 3

(***************************************************************************)
(* SpecSecret: is_missing_secret on its own.                               *)
(***************************************************************************)
PLACEHOLDERS == {"REPLACE_ME", "PASTE_FROM_KEYCLOAK_UI", "__PLACEHOLDER__"}

SecretCores ==
    PLACEHOLDERS \cup
    {"", "replace_me", "Replace_Me", "__placeholder__", "paste_from_keycloak_ui",
     "REPLACE_ME!", "xREPLACE_ME", "REPLACE ME", "__PLACEHOLDER_", "PLACEHOLDER",
     "REPLACE_MEREPLACE_ME", "s3cr3t", "REPLACE_ME\nREPLACE_ME"}

SecretPads == {"", " ", "\t", "\n", " \r\n"}

SecretValues == {l \o core \o r : l \in SecretPads, core \in SecretCores, r \in SecretPads}

InitSecret ==
    /\ EnvIdle /\ RunIdle /\ IdIdle /\ MainIdle /\ AdminIdle /\ RaceIdle
    /\ fnCall \in {[made |-> FALSE, fn |-> "is_missing_secret", arg |-> v] :
                      v \in SecretValues}
    /\ fnRes = Value("")

IsMissingSecret ==
    /\ ~fnCall.made
    /\ fnCall' = [fnCall EXCEPT !.made = TRUE]
    /\ fnRes' = Value(is_missing_secret(fnCall.arg))
    /\ UNCHANGED <<envVars, runVars, idVars, mainVars, adminVars, raceVars>>

NextSecret == IsMissingSecret

SpecSecret == InitSecret /\ [][NextSecret]_vars

\* every character of s from position a to position b is whitespace
Blank(s, a, b) == \A i \in a..b : IsSpace(Ch(s, i))

\* s is the word t with nothing but whitespace around it
IsPadded(s, t) ==
    \E i \in 1..(Len(s) + 1) :
        /\ i + Len(t) - 1 <= Len(s)
        /\ \A k \in 1..Len(t) : Ch(s, i + k - 1) = Ch(t, k)
        /\ Blank(s, 1, i - 1)
        /\ Blank(s, i + Len(t), Len(s))

\* C13: is_missing_secret(value) is true exactly when value without its
\* surrounding whitespace is empty or is one of REPLACE_ME,
\* PASTE_FROM_KEYCLOAK_UI, __PLACEHOLDER__; a value that only contains a
\* token, or differs from it in letter case, is not missing.
C13_IsMissingSecret ==
    (fnCall.made /\ fnCall.fn = "is_missing_secret") =>
        /\ fnRes.value = (\E t \in PLACEHOLDERS \cup {""} : IsPadded(fnCall.arg, t))
        /\ fnCall.arg \in {"replace_me", " Replace_Me", "__placeholder__\n",
                           "xREPLACE_ME", "REPLACE_ME!", "REPLACE_MEREPLACE_ME",
                           "REPLACE_ME\nREPLACE_ME", "\t__PLACEHOLDER_"}
              => fnRes.value = FALSE

\* a padded placeholder was found missing, and so was a blank value
C13_Witness ==
    /\ fnCall.made
    /\ fnCall.fn = "is_missing_secret"
    /\ fnCall.arg \in {" \r\nPASTE_FROM_KEYCLOAK_UI\t", "\t \r\n"}
    /\ fnRes.value = TRUE

(***************************************************************************)
(* parse_clients_file of lib/keycloak_admin.py.                            *)
(***************************************************************************)
ClientDefinition(name, direct_access_grants, standard_flow, secret_env_key, service_accounts) ==
    [name |-> name, direct_access_grants |-> direct_access_grants,
     standard_flow |-> standard_flow, secret_env_key |-> secret_env_key,
     service_accounts |-> service_accounts]

NoClients == [k \in {} |-> ClientDefinition("", FALSE, TRUE, "", FALSE)]

\* cfg.get(key, default) on a JSON object
JGet(obj, key, default) ==
    IF key \in DOMAIN obj.fields THEN obj.fields[key] ELSE default

\* a capability that is always its default
capability_default(entry, key, default) == default

\* bool(cfg.get(key, default))
capability(entry, key, default) == Truthy(JGet(entry, key, JBool(default)))

\* the loop of parse_clients_file over raw.items(), from the i-th entry
RECURSIVE parse_entries(_, _, _)
parse_entries(raw, i, clients) ==
    IF i > Len(raw.keys) THEN Value(clients)
    ELSE LET client_name == raw.keys[i]
             cfg_        == raw.fields[client_name]
         IN IF client_name = ""
            THEN Error("BootstrapError", "clients.json contains an invalid client name")
            ELSE IF cfg_.t # "obj"
            THEN Error("BootstrapError",
                       "clients.json entry '" \o client_name \o "' must be an object")
            ELSE LET secret_env_key == strip(PyStr(JGet(cfg_, "secretEnvKey", JStr(""))))
                 IN IF secret_env_key = ""
                    THEN Error("BootstrapError",
                               "clients.json entry '" \o client_name
                                   \o "' requires secretEnvKey")
                    ELSE parse_entries(raw, i + 1,
                            DictSet(clients, client_name,
                                ClientDefinition(client_name,
                                    capability(cfg_, "directAccessGrants", FALSE),
                                    capability(cfg_, "standardFlow", TRUE),
                                    secret_env_key,
                                    capability(cfg_, "serviceAccounts", FALSE))))

\* lib/keycloak_admin.py, parse_clients_file, on the file at path
parse_clients_file(file) ==
    IF ~file.exists
    THEN Error("BootstrapError", "Missing client definition file: clients.json")
    ELSE LET r == json_loads(OrStr(file.text, "null")) IN
         IF ~r.ok
         THEN Error("BootstrapError", "Unexpected JSON from Keycloak admin command")
         ELSE IF r.v.t # "obj"
         THEN Error("BootstrapError",
                    "clients.json must be a JSON object keyed by client name")
         ELSE parse_entries(r.v, 1, NoClients)

(***************************************************************************)
(* SpecClients: parse_clients_file on its own.                             *)
(***************************************************************************)
\* the text of a capability member: absent, true or false
CapText(key, c) ==
    IF c = "absent" THEN "" ELSE ", \"" \o key \o "\": " \o c

Caps == {"absent", "true", "false"}

\* entries that have a secretEnvKey, with every combination of capabilities
GoodEntries ==
    {"{\"secretEnvKey\": \"K\"" \o CapText("directAccessGrants", d)
         \o CapText("standardFlow", f) \o CapText("serviceAccounts", a) \o "}" :
       d \in Caps, f \in Caps, a \in Caps}

OddEntries ==
    {"{}", "{\"secretEnvKey\": null}", "{\"secretEnvKey\": \"\"}",
     "{\"secretEnvKey\": \"  \"}", "{\"secretEnvKey\": \" K \"}",
     "{\"secretEnvKey\": 0}", "{\"secretEnvKey\": 7}", "{\"secretEnvKey\": false}",
     "{\"secretEnvKey\": [ ]}", "{\"standardFlow\": false}",
     "{\"secretEnvKey\": \"K\", \"standardFlow\": 0, \"serviceAccounts\": \"no\"}",
     "[ ]", "\"K\"", "1", "null", "true"}

ClientNames == {"web", "", "app"}

ClientDocs ==
    {"", " ", "null", "[ ]", "{}", "{", "1", "\"web\"", "clients",
     "[{\"web\": {\"secretEnvKey\": \"K\"}}]",
     "{\"web\": {\"secretEnvKey\": \"K\"},}"}
    \cup {"{\"" \o n \o "\": " \o e \o "}" :
             n \in ClientNames, e \in GoodEntries \cup OddEntries}
    \cup {"{\"web\": {\"secretEnvKey\": \"W\"}, \"" \o n \o "\": " \o e \o "}" :
             n \in ClientNames, e \in GoodEntries \cup OddEntries}

InitClients ==
    /\ EnvIdle /\ RunIdle /\ IdIdle /\ MainIdle /\ AdminIdle /\ RaceIdle
    /\ fnCall \in {[made |-> FALSE, fn |-> "parse_clients_file", arg |-> f] :
                      f \in {NoFile} \cup {File(t) : t \in ClientDocs}}
    /\ fnRes = Value("")

ParseClientsFile ==
    /\ ~fnCall.made
    /\ fnCall.fn = "parse_clients_file"
    /\ fnCall' = [fnCall EXCEPT !.made = TRUE]
    /\ fnRes' = parse_clients_file(fnCall.arg)
    /\ UNCHANGED <<envVars, runVars, idVars, mainVars, adminVars, raceVars>>

NextClients == ParseClientsFile

SpecClients == InitClients /\ [][NextClients]_vars

\* the document of the call, read as JSON
ClientsDoc == json_loads(fnCall.arg.text)

\* the secretEnvKey of an entry is absent, null, empty or whitespace
BlankSecretKey(entry) ==
    \/ "secretEnvKey" \notin DOMAIN entry.fields
    \/ entry.fields["secretEnvKey"].t = "null"
    \/ /\ entry.fields["secretEnvKey"].t = "str"
       /\ Blank(entry.fields["secretEnvKey"].s, 1, Len(entry.fields["secretEnvKey"].s))

\* the document is one that must be refused
MalformedClients ==
    \/ ~ClientsDoc.ok
    \/ ClientsDoc.v.t # "obj"
    \/ \E k \in DOMAIN ClientsDoc.v.fields :
          \/ k = ""
          \/ ClientsDoc.v.fields[k].t # "obj"
          \/ BlankSecretKey(ClientsDoc.v.fields[k])

\* C14: parse_clients_file raises for every document that is not valid
\* JSON, whose root is not an object, that has an empty key, a value that is
\* not an object, or an entry whose secretEnvKey is absent, null, empty or
\* whitespace; when it returns, every definition has a non-empty name equal
\* to its key and a non-empty secret_env_key.
C14_ParseClientsFile ==
    (fnCall.made /\ fnCall.fn = "parse_clients_file" /\ fnCall.arg.exists) =>
        /\ MalformedClients => fnRes.raised
        /\ ~fnRes.raised =>
              \A k \in DOMAIN fnRes.value :
                  /\ k # ""
                  /\ fnRes.value[k].name = k
                  /\ fnRes.value[k].secret_env_key # ""

\* the JSON key of a capability and its default
CapKeys ==
    {<<"direct_access_grants", "directAccessGrants", FALSE>>,
     <<"standard_flow", "standardFlow", TRUE>>,
     <<"service_accounts", "serviceAccounts", FALSE>>}

\* C15: for every accepted entry, a capability absent from the entry has
\* its default (direct_access_grants false, standard_flow true,
\* service_accounts false) and a capability given as a JSON boolean has that
\* value, each of the three whatever the other two are.
C15_Capabilities ==
    (fnCall.made /\ fnCall.fn = "parse_clients_file" /\ ~fnRes.raised) =>
        \A k \in DOMAIN fnRes.value : \A c \in CapKeys :
            LET entry == ClientsDoc.v.fields[k] IN
            /\ c[2] \notin DOMAIN entry.fields => fnRes.value[k][c[1]] = c[3]
            /\ (c[2] \in DOMAIN entry.fields /\ entry.fields[c[2]].t = "bool")
                  => fnRes.value[k][c[1]] = entry.fields[c[2]].b

\* an entry was accepted with one capability given against its default, one
\* given as its default and one left out
C15_Witness ==
    /\ fnCall.made
    /\ fnCall.fn = "parse_clients_file"
    /\ ~fnRes.raised
    /\ {"app", "web"} \subseteq DOMAIN fnRes.value
    /\ "serviceAccounts" \notin DOMAIN ClientsDoc.v.fields["app"].fields
    /\ fnRes.value["app"] = ClientDefinition("app", TRUE, FALSE, "K", FALSE)
    /\ fnRes.value["web"].standard_flow

(***************************************************************************)
(* redact of redact-realm.py, on JSON values.                              *)
(***************************************************************************)
\* c.lower() of one character
LowerCh(c) ==
    LET i == IndexFrom("ABCDEFGHIJKLMNOPQRSTUVWXYZ", c, 1) IN
    IF c = "" \/ i = 0 THEN c ELSE Ch("abcdefghijklmnopqrstuvwxyz", i)

RECURSIVE lower(_)
lower(s) == IF s = "" THEN "" ELSE LowerCh(Ch(s, 1)) \o lower(SubSeq(s, 2, Len(s)))

\* SENSITIVE.search(key): (secret|password|private[_-]?key|token|credential),
\* whatever the case of the letters
SENSITIVE(key) ==
    \E word \in {"secret", "password", "privatekey", "private_key", "private-key",
                 "token", "credential"} : HasSub(lower(key), word)

\* redact-realm.py, redact
RECURSIVE redact(_)
redact(node) ==
    IF node.t = "obj"
    THEN JObj([key \in DOMAIN node.fields |->
                  IF node.fields[key].t = "str" /\ node.fields[key].s # ""
                     /\ SENSITIVE(key)
                  THEN JStr("__PLACEHOLDER__")
                  ELSE redact(node.fields[key])],
              node.keys)
    ELSE IF node.t = "list"
    THEN JList([i \in 1..Len(node.items) |-> redact(node.items[i])])
    ELSE node

(***************************************************************************)
(* SpecRedact: redact on its own.                                          *)
(***************************************************************************)
RedactKeys ==
    {"secret", "clientSecret", "PASSWORD", "Private-Key", "privateKey",
     "PRIVATE_KEY", "private key", "accessToken", "credentials", "name", "id",
     "secre", "pass_word", "enabled"}

Field(key, value) == JObj([k \in {key} |-> value], <<key>>)

RedactLeaves ==
    {JStr("s3"), JStr(""), JStr("__PLACEHOLDER__"), JNum(12345), JNum(0), JNull,
     JBool(TRUE), JList(<<>>), JList(<<JStr("s3")>>)}

RedactNodes ==
    LET flat   == {Field(k, v) : k \in RedactKeys, v \in RedactLeaves}
        nested == {Field(k, Field(j, v)) : k \in {"credentials", "name"},
                                           j \in {"secret", "value"},
                                           v \in {JStr("s3"), JNum(7), JStr("")}}
        listed == {JList(<<Field(k, JStr("s3")), JStr("password"),
                          Field("users", JList(<<Field(j, v)>>))>>) :
                      k \in {"token", "name"}, j \in {"Password", "username"},
                      v \in {JStr("s3"), JBool(FALSE)}}
        pair   == {JObj([k \in {"id", "secret"} |-> IF k = "id" THEN JStr("c-1") ELSE v],
                        <<"id", "secret">>) : v \in RedactLeaves}
    IN flat \cup nested \cup listed \cup pair
       \cup {JStr("secret"), JNull, JNum(1), JList(<<>>), JObj(NoFields, <<>>)}

InitRedact ==
    /\ EnvIdle /\ RunIdle /\ IdIdle /\ MainIdle /\ AdminIdle /\ RaceIdle
    /\ fnCall \in {[made |-> FALSE, fn |-> "redact", arg |-> n] : n \in RedactNodes}
    /\ fnRes = Value("")

Redact ==
    /\ ~fnCall.made
    /\ fnCall.fn = "redact"
    /\ fnCall' = [fnCall EXCEPT !.made = TRUE]
    /\ fnRes' = Value(redact(fnCall.arg))
    /\ UNCHANGED <<envVars, runVars, idVars, mainVars, adminVars, raceVars>>

NextRedact == Redact

SpecRedact == InitRedact /\ [][NextRedact]_vars

\* a name of the sensitive kind, stated letter by letter
IsSensitiveName(key) ==
    \E i \in 1..Len(key), word \in {"secret", "password", "privatekey", "private_key",
                                    "private-key", "token", "credential"} :
        /\ i + Len(word) - 1 <= Len(key)
        /\ \A k \in 1..Len(word) : LowerCh(Ch(key, i + k - 1)) = Ch(word, k)

\* some field of node, at any depth, has a sensitive name
RECURSIVE HasSensitive(_)
HasSensitive(node) ==
    IF node.t = "obj"
    THEN \E k \in DOMAIN node.fields :
            IsSensitiveName(k) \/ HasSensitive(node.fields[k])
    ELSE IF node.t = "list"
    THEN \E i \in 1..Len(node.items) : HasSensitive(node.items[i])
    ELSE FALSE

\* out is node with the value of every sensitive field that is not the
\* empty string replaced, and nothing else changed
RECURSIVE IsRedacted(_, _)
IsRedacted(node, out) ==
    IF node.t = "obj"
    THEN /\ out.t = "obj"
         /\ out.keys = node.keys
         /\ DOMAIN out.fields = DOMAIN node.fields
         /\ \A k \in DOMAIN node.fields :
               IF IsSensitiveName(k) /\ node.fields[k] # JStr("")
               THEN out.fields[k] = JStr("__PLACEHOLDER__")
               ELSE IsRedacted(node.fields[k], out.fields[k])
    ELSE IF node.t = "list"
    THEN /\ out.t = "list"
         /\ Len(out.items) = Len(node.items)
         /\ \A i \in 1..Len(node.items) : IsRedacted(node.items[i], out.items[i])
    ELSE out = node

\* C16: redact replaces, at every depth of mappings and sequences, the
\* value of every field with a sensitive name (secret, password,
\* private-key, token, credential, in any case) by __PLACEHOLDER__ unless
\* the value is the empty string; the output has the keys and lengths of
\* the input, and what has no sensitive name on or beneath it is unchanged.
C16_Redact ==
    (fnCall.made /\ fnCall.fn = "redact") =>
        /\ IsRedacted(fnCall.arg, fnRes.value)
        /\ ~HasSensitive(fnCall.arg) => fnRes.value = fnCall.arg

\* the client update commands of the log
ClientUpdates(l) ==
    {i \in DOMAIN l : Len(l[i]) >= 6 /\ l[i][5] = "update" /\ startswith(l[i][6], "clients/")}

\* the value of the `-s secret=...` argument of a command, "" without one
SentSecret(cmd) ==
    LET at == {i \in 2..Len(cmd) : cmd[i - 1] = "-s" /\ startswith(cmd[i], "secret=")} IN
    IF at = {} THEN ""
    ELSE LET i == CHOOSE j \in at : TRUE IN SubSeq(cmd[i], 8, Len(cmd[i]))

\* C17: secret agreement after a successful run. When main returns 0 the
\* secret sent in the client update call is the value load_env returns for
\* PROSODY_OAUTH_SECRET from the .env file as it stands at the end of the
\* run, whether the secret was there or was generated in this run.
C17_SecretAgreement ==
    (pc = "done" /\ exitCode = 0) =>
        /\ ClientUpdates(log) # {}
        /\ \A i \in ClientUpdates(log) :
              SentSecret(log[i]) = DictGet(load_env(dotenv), SECRET_KEY, "")

\* the part of the run a command belongs to: 0 docker ps, 1 authenticate,
\* 2 ensure_realm, 3 ensure_client, 4 ensure_user
Phase(cmd) ==
    IF cmd[2] = "ps" THEN 0
    ELSE IF cmd[5] = "config" THEN 1
    ELSE IF cmd[5] = "set-password" THEN 4
    ELSE LET target == cmd[6] IN
         IF startswith(target, "realms") THEN 2
         ELSE IF startswith(target, "clients") THEN 3
         ELSE 4

\* C19: call ordering within a run of main. The authenticate command is
\* issued once and before every get/create/update/set-password command,
\* the commands of ensure_realm come before those of ensure_client, which
\* come before those of ensure_user, ensure_user commands are there only
\* when a user was requested, and a step issues one command at a time.
C19_CallOrder ==
    /\ [](/\ Cardinality({i \in DOMAIN log : Phase(log[i]) = 1}) <= 1
          /\ \A i \in DOMAIN log :
                Phase(log[i]) >= 2 =>
                    \E j \in 1..(i - 1) : Phase(log[j]) = 1
          /\ \A i, j \in DOMAIN log : i < j => Phase(log[i]) <= Phase(log[j])
          /\ \A i \in DOMAIN log : Phase(log[i]) = 4 => argv.user # ""
          /\ (pc = "done" /\ exitCode = 0) =>
                Cardinality({i \in DOMAIN log : Phase(log[i]) = 1}) = 1)
    /\ [][runs' = runs =>
            \/ log' = log
            \/ /\ Len(log') = Len(log) + 1
               /\ SubSeq(log', 1, Len(log)) = log]_vars

\* a run with a user has completed after creating realm, client and user
C19_Witness ==
    /\ pc = "done"
    /\ exitCode = 0
    /\ argv.user # ""
    /\ \A p \in 0..4 : \E i \in DOMAIN log : Phase(log[i]) = p
    /\ Cardinality({i \in DOMAIN log : Len(log[i]) >= 5 /\ log[i][5] = "create"}) = 3

\* the line of the .env file that holds the secret of the run
SecretLine == SECRET_KEY \o "=" \o secret

\* C20: write-through of a generated secret. When a run generates a secret
\* the .env file holds it under its key before the first command of the run
\* is issued and in every later state of the run, whatever step fails or is
\* interrupted, and the file is written at most once in the run.
C20_WriteThrough ==
    /\ [](generated => \E i \in DOMAIN LinesOf(dotenv) : LinesOf(dotenv)[i] = SecretLine)
    /\ [][(runs' = runs /\ dotenv' # dotenv) => (dotenv = prev.dotenv /\ log = <<>>)]_vars
    /\ [][(runs' = runs /\ log = <<>> /\ log' # <<>>) => dotenv' = dotenv]_vars

\* a run that generated a secret has failed after issuing commands, and the
\* secret is in the file
C20_Witness ==
    /\ generated
    /\ pc = "done"
    /\ failure.raised
    /\ Len(log) >= 3
    /\ dotenv # prev.dotenv
    /\ \E i \in DOMAIN LinesOf(dotenv) : LinesOf(dotenv)[i] = SecretLine

(***************************************************************************)
(* KeycloakAdmin of lib/keycloak_admin.py: the argument lists of its       *)
(* kcadm calls.                                                            *)
(***************************************************************************)
bool_to_kc(value) == IF value THEN "true" ELSE "false"

realm_get_args(realm) == <<"get", "realms/" \o realm>>

realm_create_args(realm) == <<"create", "realms", "-s", "realm=" \o realm, "-s", "enabled=true">>

\* arguments of a realm update that sets the default groups as well
realm_update_args_with_groups(realm) ==
    <<"update", "realms/" \o realm, "-s", "enabled=true", "-s", "verifyEmail=false",
      "-s", "loginWithEmailAllowed=true", "-s", "defaultGroups=[\"/Members\"]">>

realm_update_args(realm) ==
    <<"update", "realms/" \o realm, "-s", "enabled=true", "-s", "verifyEmail=false",
      "-s", "loginWithEmailAllowed=true">>

realm_defaults_args(realm) ==
    <<"update", "realms/" \o realm, "-s", "defaultGroups=[\"/Members\"]">>

role_get_args(realm, role_name) == <<"get", "roles/" \o role_name, "-r", realm>>

\* arguments that remove the role
role_delete_args(realm, role_name) == <<"delete", "roles/" \o role_name, "-r", realm>>

role_create_args(realm, role_name) ==
    <<"create", "roles", "-r", realm, "-s", "name=" \o role_name, "-s", "composite=false">>

group_list_args(realm, group_name) ==
    <<"get", "groups", "-r", realm, "-q", "search=" \o group_name, "--format", "json">>

group_create_args(realm, group_name) ==
    <<"create", "groups", "-r", realm, "-s", "name=" \o group_name>>

scope_list_args(realm, scope_name) ==
    <<"get", "client-scopes", "-r", realm, "-q", "name=" \o scope_name, "--format", "json">>

scope_create_args(realm, scope_name) ==
    <<"create", "client-scopes", "-r", realm, "-s", "name=" \o scope_name,
      "-s", "protocol=openid-connect">>

client_flags(definition) ==
    <<"-s", "protocol=openid-connect", "-s", "enabled=true", "-s", "publicClient=false",
      "-s", "directAccessGrantsEnabled=" \o bool_to_kc(definition.direct_access_grants),
      "-s", "standardFlowEnabled=" \o bool_to_kc(definition.standard_flow),
      "-s", "serviceAccountsEnabled=" \o bool_to_kc(definition.service_accounts)>>

client_create_args(realm, definition) ==
    <<"create", "clients", "-r", realm, "-s", "clientId=" \o definition.name>>
        \o client_flags(definition)

\* arguments of an update that carries the secret whatever it is
client_update_args_with_secret(realm, client_uuid, definition, secret_) ==
    <<"update", "clients/" \o client_uuid, "-r", realm>> \o client_flags(definition)
        \o <<"-s", "secret=" \o secret_>>

client_update_args(realm, client_uuid, definition, secret_) ==
    <<"update", "clients/" \o client_uuid, "-r", realm>> \o client_flags(definition)
        \o (IF secret_ # "" THEN <<"-s", "secret=" \o secret_>> ELSE <<>>)

user_create_args(realm, username) ==
    <<"create", "users", "-r", realm, "-s", "username=" \o username, "-s", "enabled=true">>

user_update_args(realm, user_id, username) ==
    <<"update", "users/" \o user_id, "-r", realm, "-s", "enabled=true",
      "-s", "email=" \o user_email(username), "-s", "emailVerified=true",
      "-s", "requiredActions=[]", "-s", "groups=[\"/Members\"]">>

set_password_args(realm, username, password) ==
    <<"set-password", "-r", realm, "--username", username,
      "--new-password", password, "--temporary", "false">>

\* a search that takes an entry whose name starts with the name for it
has_named_prefix(stdout, name) ==
    LET r == json_loads(OrStr(OrStr(stdout, "[]"), "null")) IN
    IF ~r.ok
    THEN Error("BootstrapError", "Unexpected JSON from Keycloak admin command")
    ELSE Value(/\ r.v.t = "list"
               /\ \E i \in 1..Len(r.v.items) :
                     /\ r.v.items[i].t = "obj"
                     /\ "name" \in DOMAIN r.v.items[i].fields
                     /\ r.v.items[i].fields["name"].t = "str"
                     /\ startswith(r.v.items[i].fields["name"].s, name))

\* ensure_group / ensure_client_scope: whether the listing printed holds an
\* entry with the name
has_named(stdout, name) ==
    LET r == json_loads(OrStr(OrStr(stdout, "[]"), "null")) IN
    IF ~r.ok
    THEN Error("BootstrapError", "Unexpected JSON from Keycloak admin command")
    ELSE Value(/\ r.v.t = "list"
               /\ \E i \in 1..Len(r.v.items) :
                     /\ r.v.items[i].t = "obj"
                     /\ "name" \in DOMAIN r.v.items[i].fields
                     /\ r.v.items[i].fields["name"] = JStr(name))

\* the step after the first id query: update when the id is there
resolve_never_creates(id, create_step, update_step) == update_step

\* ensure_client / ensure_user: the step after the first id query
after_resolve(id, create_step, update_step) ==
    IF id = "" THEN create_step ELSE update_step

(***************************************************************************)
(* SpecAdmin: the ensure operations of KeycloakAdmin, called in any order, *)
(* one action per kcadm call.                                              *)
(***************************************************************************)
KaCfg == [container |-> "chat-idp", realm |-> "chat"]

KaHost == [docker |-> TRUE, running |-> <<"chat-idp">>]

WebClient == ClientDefinition("web", FALSE, TRUE, "WEB_SECRET", FALSE)

BackendClient == ClientDefinition("prosody-backend", TRUE, FALSE, "PROSODY_OAUTH_SECRET", TRUE)

Op(name, arg, secret_, definition) ==
    [name |-> name, arg |-> arg, secret |-> secret_, definition |-> definition]

AdminOps ==
    {Op("ensure_realm", "chat", "", WebClient),
     Op("ensure_realm_defaults", "chat", "", WebClient),
     Op("ensure_role", "member", "", WebClient),
     Op("ensure_group", "Members", "", WebClient),
     Op("ensure_client_scope", "xmpp", "", WebClient),
     Op("ensure_client", "web", "s3", WebClient),
     Op("ensure_client", "web", "", WebClient),
     Op("ensure_client", "prosody-backend", "", BackendClient),
     Op("ensure_user", "jim", "pw", WebClient),
     Op("ensure_user", "a@b.c", "pw", WebClient)}

Named(name) == [f \in {"name"} |-> name]

\* a directory with the realm and other resources than the ones asked for
OtherDir ==
    [EmptyDir EXCEPT !.realms  = DictSet(NoDict, "chat", DriftedRealm),
                     !.roles   = DictSet(NoDict, "admin", Named("admin")),
                     !.groups  = DictSet(NoDict, "g-1", Named("Members-old")),
                     !.scopes  = DictSet(NoDict, "s-1", Named("xmpp-mobile")),
                     !.clients = DictSet(NoDict, "c-1", [DriftedClient EXCEPT !["clientId"] = "other"]),
                     !.users   = DictSet(NoDict, "u-1", [DriftedUser EXCEPT !["username"] = "bob"])]

\* a directory that holds the resources asked for, and others
FullDir ==
    [OtherDir EXCEPT !.roles   = DictSet(OtherDir.roles, "member", Named("member")),
                     !.groups  = DictSet(OtherDir.groups, "g-2", Named("Members")),
                     !.scopes  = DictSet(OtherDir.scopes, "s-2", Named("xmpp")),
                     !.clients = DictSet(OtherDir.clients, "c-2", [DriftedClient EXCEPT !["clientId"] = "web"]),
                     !.users   = DictSet(OtherDir.users, "u-2", DriftedUser)]

AdminDirs ==
    {EmptyDir, [EmptyDir EXCEPT !.realms = DictSet(NoDict, "chat", DriftedRealm)],
     OtherDir, FullDir}

InitAdmin ==
    /\ EnvIdle /\ RunIdle /\ IdIdle /\ MainIdle /\ FnIdle /\ RaceIdle
    /\ kaPc = "idle"
    /\ kaOp = NoOp
    /\ kaDir \in AdminDirs
    /\ kaBefore = kaDir
    /\ kaLog = <<>>
    /\ kaId = <<>>
    /\ kaErr = NoErr
    /\ kaFaults = 0
    /\ kaCalls = 0
    /\ kaListing = NoListing

FirstStep(name) ==
    IF name = "ensure_realm" THEN "realm_get"
    ELSE IF name = "ensure_realm_defaults" THEN "realm_defaults"
    ELSE IF name = "ensure_role" THEN "role_get"
    ELSE IF name = "ensure_group" THEN "group_list"
    ELSE IF name = "ensure_client_scope" THEN "scope_list"
    ELSE IF name = "ensure_client" THEN "client_get"
    ELSE "user_get"

\* an ensure operation is called
Begin ==
    /\ kaPc = "idle"
    /\ kaCalls < MaxCalls
    /\ \E op \in AdminOps :
        /\ kaOp' = op
        /\ kaPc' = FirstStep(op.name)
    /\ kaCalls' = kaCalls + 1
    /\ kaListing' = NoListing
    /\ kaBefore' = kaDir
    /\ kaLog' = <<>>
    /\ kaId' = <<>>
    /\ kaErr' = NoErr
    /\ UNCHANGED <<kaDir, kaFaults, envVars, runVars, idVars, mainVars, fnVars, raceVars>>

\* the call with the arguments args_ is made, with the effect d on the
\* directory
KaIssue(args_, fault, d) ==
    /\ fault # "none" => kaFaults < MaxFaults
    /\ kaFaults' = IF fault = "none" THEN kaFaults ELSE kaFaults + 1
    /\ kaLog' = Append(kaLog, args_)
    /\ kaDir' = d

\* the operation raises
KaRaise(exc) ==
    /\ kaPc' = "idle"
    /\ kaErr' = Error(exc.etype, exc.message)

\* the operation returns
KaReturn ==
    /\ kaPc' = "idle"
    /\ UNCHANGED kaErr

KaGoto(step) ==
    /\ kaPc' = step
    /\ UNCHANGED kaErr

KaFrame == UNCHANGED <<kaOp, kaBefore, kaCalls, envVars, runVars, idVars, mainVars, fnVars, raceVars>>

\* the ways a call can go wrong: the command fails
CallFaults == {"none", "fail"}

\* the ways a query can go wrong: it fails, prints nothing, prints no JSON
QueryFaults == {"none", "fail", "empty", "garbled"}

\* the id the last query returned
LastId == IF kaId = <<>> THEN "" ELSE kaId[Len(kaId)]

\* ensure_realm: does the realm exist
AdminRealmGet ==
    /\ kaPc = "realm_get"
    /\ \E fault \in CallFaults :
       \E args_ \in {realm_get_args(KaCfg.realm)} :
       \E cmd \in {kcadm_cmd(KaCfg.container, args_)} :
       \E x \in {HostExec(kaDir, KaHost, cmd, fault)} :
       \E res \in {run(cmd, x.proc, FALSE)} :
           /\ KaIssue(args_, fault, x.dir)
           /\ IF res.raised THEN KaRaise(res)
              ELSE IF res.returncode # 0 THEN KaGoto("realm_create")
              ELSE KaGoto("realm_update")
           /\ UNCHANGED kaId
           /\ UNCHANGED kaListing
           /\ KaFrame

AdminRealmCreate ==
    /\ kaPc = "realm_create"
    /\ \E fault \in CallFaults :
       \E args_ \in {realm_create_args(KaCfg.realm)} :
       \E cmd \in {kcadm_cmd(KaCfg.container, args_)} :
       \E x \in {HostExec(kaDir, KaHost, cmd, fault)} :
       \E res \in {run(cmd, x.proc, TRUE)} :
           /\ KaIssue(args_, fault, x.dir)
           /\ IF res.raised THEN KaRaise(res) ELSE KaGoto("realm_update")
           /\ UNCHANGED kaId
           /\ UNCHANGED kaListing
           /\ KaFrame

AdminRealmUpdate ==
    /\ kaPc = "realm_update"
    /\ \E fault \in CallFaults :
       \E args_ \in {realm_update_args(KaCfg.realm)} :
       \E cmd \in {kcadm_cmd(KaCfg.container, args_)} :
       \E x \in {HostExec(kaDir, KaHost, cmd, fault)} :
       \E res \in {run(cmd, x.proc, TRUE)} :
           /\ KaIssue(args_, fault, x.dir)
           /\ IF res.raised THEN KaRaise(res) ELSE KaReturn
           /\ UNCHANGED kaId
           /\ UNCHANGED kaListing
           /\ KaFrame

\* ensure_realm_defaults
AdminRealmDefaults ==
    /\ kaPc = "realm_defaults"
    /\ \E fault \in CallFaults :
       \E args_ \in {realm_defaults_args(KaCfg.realm)} :
       \E cmd \in {kcadm_cmd(KaCfg.container, args_)} :
       \E x \in {HostExec(kaDir, KaHost, cmd, fault)} :
       \E res \in {run(cmd, x.proc, TRUE)} :
           /\ KaIssue(args_, fault, x.dir)
           /\ IF res.raised THEN KaRaise(res) ELSE KaReturn
           /\ UNCHANGED kaId
           /\ UNCHANGED kaListing
           /\ KaFrame

\* ensure_role: does the role exist
AdminRoleGet ==
    /\ kaPc = "role_get"
    /\ \E fault \in CallFaults :
       \E args_ \in {role_get_args(KaCfg.realm, kaOp.arg)} :
       \E cmd \in {kcadm_cmd(KaCfg.container, args_)} :
       \E x \in {HostExec(kaDir, KaHost, cmd, fault)} :
       \E res \in {run(cmd, x.proc, FALSE)} :
           /\ KaIssue(args_, fault, x.dir)
           /\ IF res.raised THEN KaRaise(res)
              ELSE IF res.returncode # 0 THEN KaGoto("role_create")
              ELSE KaReturn
           /\ UNCHANGED kaId
           /\ UNCHANGED kaListing
           /\ KaFrame

AdminRoleCreate ==
    /\ kaPc = "role_create"
    /\ \E fault \in CallFaults :
       \E args_ \in {role_create_args(KaCfg.realm, kaOp.arg)} :
       \E cmd \in {kcadm_cmd(KaCfg.container, args_)} :
       \E x \in {HostExec(kaDir, KaHost, cmd, fault)} :
       \E res \in {run(cmd, x.proc, TRUE)} :
           /\ KaIssue(args_, fault, x.dir)
           /\ IF res.raised THEN KaRaise(res) ELSE KaReturn
           /\ UNCHANGED kaId
           /\ UNCHANGED kaListing
           /\ KaFrame

\* ensure_group: the listing and the search of the name in it
AdminGroupList ==
    /\ kaPc = "group_list"
    /\ \E fault \in QueryFaults :
       \E args_ \in {group_list_args(KaCfg.realm, kaOp.arg)} :
       \E cmd \in {kcadm_cmd(KaCfg.container, args_)} :
       \E x \in {HostExec(kaDir, KaHost, cmd, fault)} :
       \E res \in {run(cmd, x.proc, TRUE)} :
       \E found \in {IF res.raised THEN Error(res.etype, res.message)
                     ELSE has_named(OrStr(res.stdout, ""), kaOp.arg)} :
           /\ KaIssue(args_, fault, x.dir)
           /\ IF found.raised THEN KaRaise(found)
              ELSE IF found.value THEN KaReturn
              ELSE KaGoto("group_create")
           /\ kaListing' = [returned |-> ~res.raised, stdout |-> OrStr(res.stdout, "")]
           /\ UNCHANGED kaId
           /\ KaFrame

AdminGroupCreate ==
    /\ kaPc = "group_create"
    /\ \E fault \in CallFaults :
       \E args_ \in {group_create_args(KaCfg.realm, kaOp.arg)} :
       \E cmd \in {kcadm_cmd(KaCfg.container, args_)} :
       \E x \in {HostExec(kaDir, KaHost, cmd, fault)} :
       \E res \in {run(cmd, x.proc, TRUE)} :
           /\ KaIssue(args_, fault, x.dir)
           /\ IF res.raised THEN KaRaise(res) ELSE KaReturn
           /\ UNCHANGED kaId
           /\ UNCHANGED kaListing
           /\ KaFrame

\* ensure_client_scope: the listing and the search of the name in it
AdminScopeList ==
    /\ kaPc = "scope_list"
    /\ \E fault \in QueryFaults :
       \E args_ \in {scope_list_args(KaCfg.realm, kaOp.arg)} :
       \E cmd \in {kcadm_cmd(KaCfg.container, args_)} :
       \E x \in {HostExec(kaDir, KaHost, cmd, fault)} :
       \E res \in {run(cmd, x.proc, TRUE)} :
       \E found \in {IF res.raised THEN Error(res.etype, res.message)
                     ELSE has_named(OrStr(res.stdout, ""), kaOp.arg)} :
           /\ KaIssue(args_, fault, x.dir)
           /\ IF found.raised THEN KaRaise(found)
              ELSE IF found.value THEN KaReturn
              ELSE KaGoto("scope_create")
           /\ kaListing' = [returned |-> ~res.raised, stdout |-> OrStr(res.stdout, "")]
           /\ UNCHANGED kaId
           /\ KaFrame

AdminScopeCreate ==
    /\ kaPc = "scope_create"
    /\ \E fault \in CallFaults :
       \E args_ \in {scope_create_args(KaCfg.realm, kaOp.arg)} :
       \E cmd \in {kcadm_cmd(KaCfg.container, args_)} :
       \E x \in {HostExec(kaDir, KaHost, cmd, fault)} :
       \E res \in {run(cmd, x.proc, TRUE)} :
           /\ KaIssue(args_, fault, x.dir)
           /\ IF res.raised THEN KaRaise(res) ELSE KaReturn
           /\ UNCHANGED kaId
           /\ UNCHANGED kaListing
           /\ KaFrame

\* ensure_client: the first get_id
AdminClientGet ==
    /\ kaPc = "client_get"
    /\ \E fault \in QueryFaults :
       \E args_ \in {get_id_args("clients", KaCfg.realm, "clientId", kaOp.arg)} :
       \E cmd \in {kcadm_cmd(KaCfg.container, args_)} :
       \E x \in {HostExec(kaDir, KaHost, cmd, fault)} :
       \E id \in {get_id(cmd, x.proc)} :
           /\ KaIssue(args_, fault, x.dir)
           /\ IF id.raised THEN KaRaise(id) /\ UNCHANGED kaId
              ELSE /\ kaId' = Append(kaId, id.value)
                   /\ KaGoto(after_resolve(id.value, "client_create", "client_update"))
           /\ UNCHANGED kaListing
           /\ KaFrame

AdminClientCreate ==
    /\ kaPc = "client_create"
    /\ \E fault \in CallFaults :
       \E args_ \in {client_create_args(KaCfg.realm, kaOp.definition)} :
       \E cmd \in {kcadm_cmd(KaCfg.container, args_)} :
       \E x \in {HostExec(kaDir, KaHost, cmd, fault)} :
       \E res \in {run(cmd, x.proc, TRUE)} :
           /\ KaIssue(args_, fault, x.dir)
           /\ IF res.raised THEN KaRaise(res) ELSE KaGoto("client_reget")
           /\ UNCHANGED kaId
           /\ UNCHANGED kaListing
           /\ KaFrame

\* ensure_client: the get_id after the create
AdminClientReget ==
    /\ kaPc = "client_reget"
    /\ \E fault \in QueryFaults :
       \E args_ \in {get_id_args("clients", KaCfg.realm, "clientId", kaOp.arg)} :
       \E cmd \in {kcadm_cmd(KaCfg.container, args_)} :
       \E x \in {HostExec(kaDir, KaHost, cmd, fault)} :
       \E id \in {get_id(cmd, x.proc)} :
           /\ KaIssue(args_, fault, x.dir)
           /\ IF id.raised THEN KaRaise(id) /\ UNCHANGED kaId
              ELSE /\ kaId' = Append(kaId, id.value)
                   /\ IF id.value = ""
                      THEN KaRaise(Error("BootstrapError",
                                         "Unable to resolve client UUID for '" \o kaOp.arg \o "'"))
                      ELSE KaGoto("client_update")
           /\ UNCHANGED kaListing
           /\ KaFrame

AdminClientUpdate ==
    /\ kaPc = "client_update"
    /\ \E fault \in CallFaults :
       \E args_ \in {client_update_args(KaCfg.realm, LastId, kaOp.definition, kaOp.secret)} :
       \E cmd \in {kcadm_cmd(KaCfg.container, args_)} :
       \E x \in {HostExec(kaDir, KaHost, cmd, fault)} :
       \E res \in {run(cmd, x.proc, TRUE)} :
           /\ KaIssue(args_, fault, x.dir)
           /\ IF res.raised THEN KaRaise(res) ELSE KaReturn
           /\ UNCHANGED kaId
           /\ UNCHANGED kaListing
           /\ KaFrame

\* ensure_user: the first get_id
AdminUserGet ==
    /\ kaPc = "user_get"
    /\ \E fault \in QueryFaults :
       \E args_ \in {get_id_args("users", KaCfg.realm, "username", kaOp.arg)} :
       \E cmd \in {kcadm_cmd(KaCfg.container, args_)} :
       \E x \in {HostExec(kaDir, KaHost, cmd, fault)} :
       \E id \in {get_id(cmd, x.proc)} :
           /\ KaIssue(args_, fault, x.dir)
           /\ IF id.raised THEN KaRaise(id) /\ UNCHANGED kaId
              ELSE /\ kaId' = Append(kaId, id.value)
                   /\ KaGoto(after_resolve(id.value, "user_create", "user_update"))
           /\ UNCHANGED kaListing
           /\ KaFrame

AdminUserCreate ==
    /\ kaPc = "user_create"
    /\ \E fault \in CallFaults :
       \E args_ \in {user_create_args(KaCfg.realm, kaOp.arg)} :
       \E cmd \in {kcadm_cmd(KaCfg.container, args_)} :
       \E x \in {HostExec(kaDir, KaHost, cmd, fault)} :
       \E res \in {run(cmd, x.proc, TRUE)} :
           /\ KaIssue(args_, fault, x.dir)
           /\ IF res.raised THEN KaRaise(res) ELSE KaGoto("user_reget")
           /\ UNCHANGED kaId
           /\ UNCHANGED kaListing
           /\ KaFrame

\* ensure_user: the get_id after the create
AdminUserReget ==
    /\ kaPc = "user_reget"
    /\ \E fault \in QueryFaults :
       \E args_ \in {get_id_args("users", KaCfg.realm, "username", kaOp.arg)} :
       \E cmd \in {kcadm_cmd(KaCfg.container, args_)} :
       \E x \in {HostExec(kaDir, KaHost, cmd, fault)} :
       \E id \in {get_id(cmd, x.proc)} :
           /\ KaIssue(args_, fault, x.dir)
           /\ IF id.raised THEN KaRaise(id) /\ UNCHANGED kaId
              ELSE /\ kaId' = Append(kaId, id.value)
                   /\ IF id.value = ""
                      THEN KaRaise(Error("BootstrapError",
                                         "Unable to resolve user ID for '" \o kaOp.arg \o "'"))
                      ELSE KaGoto("user_update")
           /\ UNCHANGED kaListing
           /\ KaFrame

AdminUserUpdate ==
    /\ kaPc = "user_update"
    /\ \E fault \in CallFaults :
       \E args_ \in {user_update_args(KaCfg.realm, LastId, kaOp.arg)} :
       \E cmd \in {kcadm_cmd(KaCfg.container, args_)} :
       \E x \in {HostExec(kaDir, KaHost, cmd, fault)} :
       \E res \in {run(cmd, x.proc, TRUE)} :
           /\ KaIssue(args_, fault, x.dir)
           /\ IF res.raised THEN KaRaise(res) ELSE KaGoto("user_password")
           /\ UNCHANGED kaId
           /\ UNCHANGED kaListing
           /\ KaFrame

AdminUserPassword ==
    /\ kaPc = "user_password"
    /\ \E fault \in CallFaults :
       \E args_ \in {set_password_args(KaCfg.realm, kaOp.arg, kaOp.secret)} :
       \E cmd \in {kcadm_cmd(KaCfg.container, args_)} :
       \E x \in {HostExec(kaDir, KaHost, cmd, fault)} :
       \E res \in {run(cmd, x.proc, TRUE)} :
           /\ KaIssue(args_, fault, x.dir)
           /\ IF res.raised THEN KaRaise(res) ELSE KaReturn
           /\ UNCHANGED kaId
           /\ UNCHANGED kaListing
           /\ KaFrame

NextAdmin ==
    \/ Begin
    \/ AdminRealmGet
    \/ AdminRealmCreate
    \/ AdminRealmUpdate
    \/ AdminRealmDefaults
    \/ AdminRoleGet
    \/ AdminRoleCreate
    \/ AdminGroupList
    \/ AdminGroupCreate
    \/ AdminScopeList
    \/ AdminScopeCreate
    \/ AdminClientGet
    \/ AdminClientCreate
    \/ AdminClientReget
    \/ AdminClientUpdate
    \/ AdminUserGet
    \/ AdminUserCreate
    \/ AdminUserReget
    \/ AdminUserUpdate
    \/ AdminUserPassword

SpecAdmin == InitAdmin /\ [][NextAdmin]_vars

(***************************************************************************)
(* C12: the ensure operations remove nothing.                              *)
(***************************************************************************)
\* the tables of the directory that hold resources
Tables == {"realms", "roles", "groups", "scopes", "clients", "users"}

\* the table an ensure operation works on
OpTable(name) ==
    IF name \in {"ensure_realm", "ensure_realm_defaults"} THEN "realms"
    ELSE IF name = "ensure_role" THEN "roles"
    ELSE IF name = "ensure_group" THEN "groups"
    ELSE IF name = "ensure_client_scope" THEN "scopes"
    ELSE IF name = "ensure_client" THEN "clients"
    ELSE "users"

\* the name under which the entry id of a table is asked for
EntryName(table, d, id) ==
    IF table \in {"realms", "roles"} THEN id
    ELSE IF table = "clients" THEN DictGet(d.clients[id], "clientId", "")
    ELSE IF table = "users" THEN DictGet(d.users[id], "username", "")
    ELSE DictGet(d[table][id], "name", "")

\* the operation under way names the entry id of table
NamedByOp(table, id) ==
    /\ table = OpTable(kaOp.name)
    /\ EntryName(table, kaDir, id) = (IF table = "realms" THEN KaCfg.realm ELSE kaOp.arg)

\* no delete command among the commands
NoDelete(l) == \A i \in 1..Len(l) : l[i][1] # "delete"

\* C12: whatever ensure operations are called and in whatever order, no
\* step issues a delete command, no realm, role, group, client scope, client
\* or user leaves the directory, and a resource (or a password) that the
\* operation under way does not name stays exactly as it was.
C12_NoRemoval ==
    [][/\ NoDelete(kaLog')
       /\ \A table \in Tables :
             \A id \in DOMAIN kaDir[table] :
                /\ id \in DOMAIN kaDir'[table]
                /\ ~NamedByOp(table, id) => kaDir'[table][id] = kaDir[table][id]
       /\ \A u \in DOMAIN kaDir.creds :
             /\ u \in DOMAIN kaDir'.creds
             /\ ~(kaOp.name = "ensure_user" /\ u = kaOp.arg)
                   => kaDir'.creds[u] = kaDir.creds[u]]_vars

\* ensure_client has created the client "web" next to the client that was
\* there, which is as it was
C12_Witness ==
    /\ kaPc = "idle"
    /\ kaOp.name = "ensure_client"
    /\ ~kaErr.raised
    /\ "c-1" \in DOMAIN kaBefore.clients
    /\ "c-2" \notin DOMAIN kaBefore.clients
    /\ "c-2" \in DOMAIN kaDir.clients
    /\ kaDir.clients["c-1"] = kaBefore.clients["c-1"]
    /\ kaDir.users = kaBefore.users

(***************************************************************************)
(* C18: resolve, create if absent, resolve again, update.                  *)
(***************************************************************************)
\* the kcadm verbs of the calls of the operation under way, in order
Verbs == [i \in 1..Len(kaLog) |-> kaLog[i][1]]

\* how many calls of the operation under way have the verb
CountVerb(verb) == Cardinality({i \in 1..Len(kaLog) : kaLog[i][1] = verb})

IsPrefix(s, t) == Len(s) <= Len(t) /\ SubSeq(t, 1, Len(s)) = s

\* the calls of ensure_client and ensure_user when the resource is found
FoundCalls ==
    IF kaOp.name = "ensure_client" THEN <<"get", "update">>
    ELSE <<"get", "update", "set-password">>

\* the calls of ensure_client and ensure_user when the resource is created
CreatedCalls ==
    IF kaOp.name = "ensure_client" THEN <<"get", "create", "get", "update">>
    ELSE <<"get", "create", "get", "update", "set-password">>

\* the step at which the operation under way is about to call create, update
CreateStep == IF kaOp.name = "ensure_client" THEN "client_create" ELSE "user_create"

UpdateStep == IF kaOp.name = "ensure_client" THEN "client_update" ELSE "user_update"

\* C18: in ensure_client and ensure_user the calls come in the order query,
\* create, query, update; the create is called exactly when the first query
\* returned no id, and once; a create that succeeded is followed by exactly
\* one more query; when that query returns no id either the operation raises
\* and calls neither update nor set-password; whenever an id is resolved,
\* found at first or after the create, exactly one update is called, on that
\* id, after the queries and the create.
C18_ResolveProtocol ==
    kaOp.name \in {"ensure_client", "ensure_user"} =>
        /\ IF CountVerb("create") = 0 THEN IsPrefix(Verbs, FoundCalls)
           ELSE IsPrefix(Verbs, CreatedCalls)
        /\ CountVerb("create") = 1
              <=> (Len(kaId) >= 1 /\ kaId[1] = "" /\ kaPc # CreateStep)
        /\ (Len(kaLog) >= 2 /\ kaLog[2][1] = "create"
              /\ (kaPc = "idle" => ~kaErr.raised \/ Len(kaLog) > 2))
              => kaPc \in {"client_reget", "user_reget"} \/ CountVerb("get") = 2
        /\ (Len(kaId) = 2 /\ kaId[2] = "")
              => /\ kaPc = "idle"
                 /\ kaErr.raised
                 /\ startswith(kaErr.message, "Unable to resolve ")
                 /\ CountVerb("update") = 0
                 /\ CountVerb("set-password") = 0
        /\ (LastId # "" /\ kaPc # UpdateStep)
              => /\ CountVerb("update") = 1
                 /\ \E i \in 1..Len(kaLog) :
                       /\ kaLog[i][1] = "update"
                       /\ kaLog[i][2] = OpTable(kaOp.name) \o "/" \o LastId
                       /\ i = Len(kaId) + CountVerb("create") + 1
        /\ LastId = "" => CountVerb("update") = 0

\* ensure_user has returned after creating the user: query, create, query,
\* update of the id the second query returned, set-password
C18_Witness ==
    /\ kaOp.name = "ensure_user"
    /\ kaPc = "idle"
    /\ ~kaErr.raised
    /\ Verbs = <<"get", "create", "get", "update", "set-password">>
    /\ kaId[1] = ""
    /\ kaLog[4][2] = "users/" \o kaId[2]

(***************************************************************************)
(* C21: the fields ensure_client sets.                                     *)
(***************************************************************************)
\* the fields a command sets with -s, as a mapping
SetFields(a) == ApplySets(EmptyDict, a, 1)

\* the fields of the command are those of the definition
CarriesDefinition(a, definition) ==
    LET f == SetFields(a) IN
    /\ DictGet(f, "protocol", "") = "openid-connect"
    /\ DictGet(f, "publicClient", "") = "false"
    /\ DictGet(f, "directAccessGrantsEnabled", "")
          = (IF definition.direct_access_grants THEN "true" ELSE "false")
    /\ DictGet(f, "standardFlowEnabled", "")
          = (IF definition.standard_flow THEN "true" ELSE "false")
    /\ DictGet(f, "serviceAccountsEnabled", "")
          = (IF definition.service_accounts THEN "true" ELSE "false")

\* C21: every create and every update that ensure_client issues sets
\* protocol=openid-connect and publicClient=false and the three capability
\* flags of the client definition; a create never sets the secret; an update
\* sets secret=<value> exactly when the secret handed to ensure_client is
\* not empty, and then to that secret.
C21_ClientFields ==
    kaOp.name = "ensure_client" =>
        \A i \in 1..Len(kaLog) :
            /\ kaLog[i][1] \in {"create", "update"}
                  => CarriesDefinition(kaLog[i], kaOp.definition)
            /\ kaLog[i][1] = "create" => "secret" \notin DOMAIN SetFields(kaLog[i])
            /\ kaLog[i][1] = "update"
                  => /\ "secret" \in DOMAIN SetFields(kaLog[i]) <=> kaOp.secret # ""
                     /\ DictGet(SetFields(kaLog[i]), "secret", "") = kaOp.secret

\* ensure_client has created and updated a client whose definition differs
\* from the script's fixed flags, without a secret
C21_Witness ==
    /\ kaOp.name = "ensure_client"
    /\ kaOp.definition = WebClient
    /\ kaOp.secret = ""
    /\ kaPc = "idle"
    /\ ~kaErr.raised
    /\ Len(kaLog) = 4
    /\ kaLog[2][1] = "create"
    /\ kaLog[4][1] = "update"
    /\ "secret" \notin DOMAIN SetFields(kaLog[4])

(***************************************************************************)
(* C22: what ensure_user sends.                                            *)
(***************************************************************************)
\* the kcadm arguments of the commands of a run of main (a command that is
\* not a kcadm call has none)
KcArgs(l) == [i \in 1..Len(l) |-> SubSeq(l[i], 5, Len(l[i]))]

\* the positions in the calls of the commands with the verb on users
UserCallsAt(calls, verb) ==
    {i \in 1..Len(calls) :
        /\ calls[i] # <<>>
        /\ calls[i][1] = verb
        /\ verb = "set-password" \/ startswith(calls[i][2], "users")}

\* the fields the update of a user is to set
ConvergedUser(username) ==
    [f \in {"enabled", "email", "emailVerified", "requiredActions", "groups"} |->
        IF f = "email"
        THEN (IF \E i \in 1..Len(username) : SubSeq(username, i, i) = "@"
              THEN username ELSE username \o "@localhost")
        ELSE IF f = "requiredActions" THEN "[]"
        ELSE IF f = "groups" THEN "[\"/Members\"]"
        ELSE "true"]

\* the calls of a successful ensure_user are as the claim says
UserConvergence(calls, username, password) ==
    /\ Cardinality(UserCallsAt(calls, "update")) = 1
    /\ Cardinality(UserCallsAt(calls, "set-password")) = 1
    /\ \A i \in UserCallsAt(calls, "update") :
          /\ SetFields(calls[i]) = ConvergedUser(username)
          /\ \A j \in UserCallsAt(calls, "set-password") : i < j
          /\ \A k \in 1..Len(calls[i]) : ~HasSub(calls[i][k], password)
    /\ \A j \in UserCallsAt(calls, "set-password") :
          /\ ArgAfter(calls[j], "--username", 1) = username
          /\ ArgAfter(calls[j], "--new-password", 1) = password
          /\ ArgAfter(calls[j], "--temporary", 1) = "false"
    /\ \A i \in UserCallsAt(calls, "create") :
          /\ SetFields(calls[i])
                = [f \in {"username", "enabled"} |->
                      IF f = "username" THEN username ELSE "true"]
          /\ \A k \in 1..Len(calls[i]) : ~HasSub(calls[i][k], password)

\* C22, for KeycloakAdmin.ensure_user: when it returns it has issued one
\* update that sets enabled=true, the derived email, emailVerified=true,
\* requiredActions=[] and groups=["/Members"], then one set-password with
\* --temporary false; the password is in neither the create nor the update,
\* and a create sets only username and enabled=true.
C22_AdminUserConvergence ==
    (kaOp.name = "ensure_user" /\ kaPc = "idle" /\ ~kaErr.raised)
        => UserConvergence(kaLog, kaOp.arg, kaOp.secret)

\* C22, for ensure_user of bootstrap-keycloak.py: a run with --user that
\* ends with exit code 0 has issued one update of the user that sets
\* enabled=true, the derived email, emailVerified=true, requiredActions=[]
\* and groups=["/Members"], then one set-password with --temporary false;
\* the password is in neither the create nor the update, and a create sets
\* only username and enabled=true.
C22_UserConvergence ==
    (pc = "done" /\ exitCode = 0 /\ argv.user # "")
        => UserConvergence(KcArgs(log), argv.user, argv.password)

\* C22 without the group: all of it but the membership in /Members
C22_UserConvergenceNoGroup ==
    (pc = "done" /\ exitCode = 0 /\ argv.user # "")
        => UserConvergence([i \in 1..Len(log) |->
                               IF i \in UserCallsAt(KcArgs(log), "update")
                               THEN KcArgs(log)[i] \o <<"-s", "groups=[\"/Members\"]">>
                               ELSE KcArgs(log)[i]],
                           argv.user, argv.password)

(***************************************************************************)
(* C23: what ensure_realm and ensure_realm_defaults set.                   *)
(***************************************************************************)
\* the fields every ensure_realm leaves set
ConvergedRealm ==
    [f \in {"enabled", "verifyEmail", "loginWithEmailAllowed"} |->
        IF f = "verifyEmail" THEN "false" ELSE "true"]

\* the default groups of a realm of the directory d ("" when never set)
DefaultGroups(d, r) == DictGet(d.realms[r], "defaultGroups", "")

\* the commands of the operation under way are those of a realm operation
\* that went as the claim says
RealmCalls ==
    /\ kaOp.name = "ensure_realm"
          => /\ \A i \in 1..Len(kaLog) : "defaultGroups" \notin DOMAIN SetFields(kaLog[i])
             /\ (kaPc = "idle" /\ ~kaErr.raised)
                   => /\ CountVerb("update") = 1
                      /\ kaLog[Len(kaLog)][1] = "update"
                      /\ kaLog[Len(kaLog)][2] = "realms/" \o KaCfg.realm
                      /\ SetFields(kaLog[Len(kaLog)]) = ConvergedRealm
                      /\ (CountVerb("create") = 1) <=> (KaCfg.realm \notin DOMAIN kaBefore.realms)
    /\ kaOp.name = "ensure_realm_defaults"
          => \A i \in 1..Len(kaLog) :
                SetFields(kaLog[i]) = [f \in {"defaultGroups"} |-> "[\"/Members\"]"]

\* C23: an ensure_realm that returns has ended with its one update, which
\* sets enabled=true, verifyEmail=false and loginWithEmailAllowed=true, after
\* a create or without one, and none of its commands sets defaultGroups. The
\* default groups of a realm change in no step but one of
\* ensure_realm_defaults, which makes them ["/Members"] and changes no other
\* field of the realm; a realm that is created has none.
C23_RealmConvergence ==
    [][/\ RealmCalls'
       /\ \A r \in DOMAIN kaDir'.realms :
             IF r \notin DOMAIN kaDir.realms THEN DefaultGroups(kaDir', r) = ""
             ELSE /\ DefaultGroups(kaDir', r) # DefaultGroups(kaDir, r)
                        => /\ kaOp.name = "ensure_realm_defaults"
                           /\ DefaultGroups(kaDir', r) = "[\"/Members\"]"
                  /\ kaOp.name = "ensure_realm_defaults"
                        => \A f \in DOMAIN kaDir.realms[r] \ {"defaultGroups"} :
                              /\ f \in DOMAIN kaDir'.realms[r]
                              /\ kaDir'.realms[r][f] = kaDir.realms[r][f]]_vars

\* ensure_realm has created the realm and converged it, and a later
\* ensure_realm_defaults has set its default groups and nothing else
C23_Witness ==
    /\ kaOp.name = "ensure_realm_defaults"
    /\ kaPc = "idle"
    /\ ~kaErr.raised
    /\ KaCfg.realm \in DOMAIN kaDir.realms
    /\ [f \in DOMAIN ConvergedRealm |-> kaDir.realms[KaCfg.realm][f]] = ConvergedRealm
    /\ DefaultGroups(kaDir, KaCfg.realm) = "[\"/Members\"]"
    /\ DefaultGroups(kaBefore, KaCfg.realm) = ""

(***************************************************************************)
(* C24: groups and client scopes are matched by their exact name.          *)
(***************************************************************************)
\* the names of the entries of a listing that kcadm.sh printed
ListedNames(stdout) ==
    LET r == json_loads(IF stdout = "" THEN "[]" ELSE stdout) IN
    IF ~r.ok \/ r.v.t # "list" THEN {}
    ELSE {r.v.items[i].fields["name"].s :
             i \in {j \in 1..Len(r.v.items) :
                       /\ r.v.items[j].t = "obj"
                       /\ "name" \in DOMAIN r.v.items[j].fields
                       /\ r.v.items[j].fields["name"].t = "str"}}

\* the listing read is JSON
ListingParsed ==
    kaListing.returned /\ json_loads(IF kaListing.stdout = "" THEN "[]" ELSE kaListing.stdout).ok

\* the listing the directory prints for the query of the operation under
\* way, as it was when the operation began
TrueListing ==
    KcGet(kaBefore,
          IF kaOp.name = "ensure_group" THEN group_list_args(KaCfg.realm, kaOp.arg)
          ELSE scope_list_args(KaCfg.realm, kaOp.arg)).proc.stdout

\* the names of the groups or client scopes there were when the operation
\* began
NamesBefore ==
    LET table == IF kaOp.name = "ensure_group" THEN kaBefore.groups ELSE kaBefore.scopes
    IN {table[id]["name"] : id \in DOMAIN table}

\* C24: ensure_group and ensure_client_scope never update; once the listing
\* is read, a create has been issued exactly when no entry of the listing
\* has the name asked for, whatever entries with longer names it has, and
\* only once; and when the directory already holds the name, as after an
\* earlier ensure of it, and prints its listing, no create is issued.
C24_ExactNameMatch ==
    kaOp.name \in {"ensure_group", "ensure_client_scope"} =>
        /\ CountVerb("update") = 0
        /\ CountVerb("create") <= 1
        /\ ~ListingParsed => CountVerb("create") = 0
        /\ (ListingParsed /\ kaPc \notin {"group_create", "scope_create"})
              => (CountVerb("create") = 1 <=> kaOp.arg \notin ListedNames(kaListing.stdout))
        /\ (kaListing.returned /\ kaListing.stdout = TrueListing
                /\ kaOp.arg \in NamesBefore)
              => CountVerb("create") = 0

\* ensure_group has created the group although the listing held a group
\* whose name starts with the name asked for
C24_Witness ==
    /\ kaOp.name = "ensure_group"
    /\ kaPc = "idle"
    /\ ~kaErr.raised
    /\ CountVerb("create") = 1
    /\ "Members-old" \in ListedNames(kaListing.stdout)
    /\ \E id \in DOMAIN kaDir.groups : kaDir.groups[id]["name"] = kaOp.arg

(***************************************************************************)
(* C25: ensure_realm and ensure_role create only what is not there.        *)
(***************************************************************************)
\* the realm or role the operation under way asks for was in the directory
\* when the operation began
ExistedBefore ==
    IF kaOp.name = "ensure_realm" THEN KaCfg.realm \in DOMAIN kaBefore.realms
    ELSE kaOp.arg \in DOMAIN kaBefore.roles

\* C25: ensure_realm and ensure_role issue no create for a realm or role
\* that is in the directory, also when the existence check exits non-zero
\* for another reason than absence, and ensure_role issues nothing after the
\* check when the role is there.
C25_CreateOnlyIfAbsent ==
    (kaOp.name \in {"ensure_realm", "ensure_role"} /\ ExistedBefore) =>
        /\ CountVerb("create") = 0
        /\ kaOp.name = "ensure_role" => Len(kaLog) <= 1

\* C25 where the existence check is answered by the directory: no command
\* has failed for another reason
C25_CreateOnlyIfAbsentNoFault ==
    kaFaults = 0 => C25_CreateOnlyIfAbsent

(***************************************************************************)
(* SpecTwice: set_env_value called twice in a row with the same key and    *)
(* value, on every initial file.                                           *)
(***************************************************************************)
\* the values written: one on a single line, one that holds a line break
TwiceValues == {"9", "3\n4"}

InitTwice ==
    /\ envFile \in InitEnvFiles
    /\ envBefore = envFile
    /\ envCall = NoCall
    /\ envStep = "init"
    /\ envLoaded = EmptyDict
    /\ envOps = 0
    /\ RunIdle /\ IdIdle /\ MainIdle /\ FnIdle /\ AdminIdle /\ RaceIdle

FirstCall(key, value) ==
    /\ envStep = "init"
    /\ envBefore' = envFile
    /\ envFile' = set_env_value(envFile, key, value)
    /\ envCall' = [made |-> TRUE, key |-> key, value |-> value]
    /\ envStep' = "once"
    /\ envOps' = 1
    /\ UNCHANGED <<envLoaded, runVars, idVars, mainVars, fnVars, adminVars, raceVars>>

SecondCall ==
    /\ envStep = "once"
    /\ envBefore' = envFile
    /\ envFile' = set_env_value(envFile, envCall.key, envCall.value)
    /\ envStep' = "twice"
    /\ envOps' = 2
    /\ UNCHANGED <<envCall, envLoaded, runVars, idVars, mainVars, fnVars, adminVars, raceVars>>

NextTwice ==
    \/ \E key \in EnvKeys, value \in TwiceValues : FirstCall(key, value)
    \/ SecondCall

SpecTwice == InitTwice /\ [][NextTwice]_vars

\* the number of lines of a file
LineCount(file) == Len(splitlines(file.text))

\* the second call left the file as the first call wrote it, with no more lines
SecondCallKept ==
    /\ envFile = envBefore
    /\ LineCount(envFile) <= LineCount(envBefore)

C27_IdempotentSingleLine ==
    (envStep = "twice" /\ ~contains(envCall.value, "\n")) => SecondCallKept

\* C27, for a value that holds a line break: the second call reads the
\* value back as several lines and the file grows.
C27_GrowsOnLineBreak ==
    (envStep = "twice" /\ contains(envCall.value, "\n")) =>
        LineCount(envFile) > LineCount(envBefore)

(***************************************************************************)
(* SpecRace: two processes on one .env file and one directory. Each calls  *)
(* set_env_value for a key of its own; when both calls have returned,      *)
(* each process starts a run of main of bootstrap-keycloak.py. Nothing     *)
(* locks the file, so a step of one process can come between the read and  *)
(* the write of the other. Of a run the steps that read or write the       *)
(* secret are followed: load_config, with its set_env_value in two steps,  *)
(* and ensure_client, whose kcadm calls are taken together.                *)
(***************************************************************************)
RaceProcs == {1, 2}

\* the key and the value of the set_env_value call of each process
RaceKey == <<"DOMAIN", "PROSODY_ADMIN_JID">>

RaceValue == <<"chat.example", "admin@chat.example">>

RaceFiles ==
    {NoFile}
    \cup {File(AdminLines \o d \o s) :
            d \in {"", "DOMAIN=localhost\n"},
            s \in {"", "PROSODY_OAUTH_SECRET=\n", "PROSODY_OAUTH_SECRET=s3cr3t\n"}}

\* the realm is there, with or without the client
RaceDirs == InitDirs \ {EmptyDir}

RaceHost == [docker |-> TRUE, running |-> <<"chat-db", "chat-idp">>]

\* set_env_value, the read: the lines of the file
read_lines(file) == IF file.exists THEN splitlines(file.text) ELSE <<>>

\* a write that reads the file again and so never works on old lines
write_lines_locked(lines, key, value) == set_env_value(rcFile, key, value)

\* set_env_value, the loop and the write: the file made of the lines read
write_lines(lines, key, value) ==
    File(join("\n", IF replaced_any(lines, key)
                    THEN set_lines(lines, key, value)
                    ELSE set_lines(lines, key, value) \o <<key \o "=" \o value>>)
         \o "\n")

\* ensure_client: the id query, the create and the update command
bk_client_query(cfg_) ==
    kcadm_cmd(cfg_.container,
              get_id_args("clients", cfg_.realm, "clientId", cfg_.client_id))

bk_client_create(cfg_) ==
    kcadm_cmd(cfg_.container,
              <<"create", "clients", "-r", cfg_.realm,
                "-s", "clientId=" \o cfg_.client_id,
                "-s", "protocol=openid-connect",
                "-s", "enabled=true",
                "-s", "publicClient=false",
                "-s", "directAccessGrantsEnabled=true",
                "-s", "standardFlowEnabled=false",
                "-s", "serviceAccountsEnabled=false">>)

bk_client_update(cfg_, client_uuid, secret_) ==
    kcadm_cmd(cfg_.container,
              <<"update", "clients/" \o client_uuid, "-r", cfg_.realm,
                "-s", "protocol=openid-connect",
                "-s", "enabled=true",
                "-s", "publicClient=false",
                "-s", "directAccessGrantsEnabled=true",
                "-s", "standardFlowEnabled=false",
                "-s", "serviceAccountsEnabled=false",
                "-s", "secret=" \o secret_>>)

InitRace ==
    /\ EnvIdle /\ RunIdle /\ IdIdle /\ MainIdle /\ FnIdle /\ AdminIdle
    /\ rcPc = [p \in RaceProcs |-> "set_read"]
    /\ rcFile \in RaceFiles
    /\ rcDir \in RaceDirs
    /\ rcLines = [p \in RaceProcs |-> <<>>]
    /\ rcRun = [p \in RaceProcs |-> NoRun]
    /\ rcStale = [p \in RaceProcs |-> FALSE]
    /\ rcLast = [write |-> 0, client |-> 0]

RaceFrame == UNCHANGED <<envVars, runVars, idVars, mainVars, fnVars, adminVars>>

\* set_env_value(path, RaceKey[p], RaceValue[p]) of process p: the read
SetRead(p) ==
    /\ rcPc[p] = "set_read"
    /\ rcLines' = [rcLines EXCEPT ![p] = read_lines(rcFile)]
    /\ rcPc' = [rcPc EXCEPT ![p] = "set_write"]
    /\ UNCHANGED <<rcFile, rcDir, rcRun, rcStale, rcLast>>
    /\ RaceFrame

\* and the write
SetWrite(p) ==
    /\ rcPc[p] = "set_write"
    /\ rcFile' = write_lines(rcLines[p], RaceKey[p], RaceValue[p])
    /\ rcStale' = [rcStale EXCEPT ![p] = read_lines(rcFile) # rcLines[p]]
    /\ rcLast' = [rcLast EXCEPT !.write = p]
    /\ rcPc' = [rcPc EXCEPT ![p] = "set_done"]
    /\ UNCHANGED <<rcDir, rcLines, rcRun>>
    /\ RaceFrame

\* both calls have returned: each process starts a run of main
StartRuns ==
    /\ \A p \in RaceProcs : rcPc[p] = "set_done"
    /\ rcPc' = [p \in RaceProcs |-> "load"]
    /\ rcLines' = [p \in RaceProcs |-> <<>>]
    /\ rcStale' = [p \in RaceProcs |-> FALSE]
    /\ rcLast' = [write |-> 0, client |-> 0]
    /\ UNCHANGED <<rcFile, rcDir, rcRun>>
    /\ RaceFrame

\* load_config of run p up to generate_secret: the file is loaded and the
\* secret is found or generated
RunLoad(p) ==
    /\ rcPc[p] = "load"
    /\ \E c \in GenChars :
       \E r \in {load_config(rcFile, generate_secret(bk_secret_length, c))} :
        IF r.exc.raised
        THEN /\ rcPc' = [rcPc EXCEPT ![p] = "failed"]
             /\ UNCHANGED rcRun
        ELSE /\ rcPc' = [rcPc EXCEPT ![p] = IF r.secret_generated THEN "read"
                                            ELSE "client"]
             /\ rcRun' = [rcRun EXCEPT ![p] =
                             [cfg |-> r.cfg, secret |-> r.secret,
                              secret_generated |-> r.secret_generated]]
    /\ UNCHANGED <<rcFile, rcDir, rcLines, rcStale, rcLast>>
    /\ RaceFrame

\* set_env_value(env_file, "PROSODY_OAUTH_SECRET", secret) of run p: the read
RunRead(p) ==
    /\ rcPc[p] = "read"
    /\ rcLines' = [rcLines EXCEPT ![p] = read_lines(rcFile)]
    /\ rcPc' = [rcPc EXCEPT ![p] = "write"]
    /\ UNCHANGED <<rcFile, rcDir, rcRun, rcStale, rcLast>>
    /\ RaceFrame

\* and the write
RunWrite(p) ==
    /\ rcPc[p] = "write"
    /\ rcFile' = write_lines(rcLines[p], SECRET_KEY, rcRun[p].secret)
    /\ rcStale' = [rcStale EXCEPT ![p] = read_lines(rcFile) # rcLines[p]]
    /\ rcLast' = [rcLast EXCEPT !.write = p]
    /\ rcPc' = [rcPc EXCEPT ![p] = "client"]
    /\ UNCHANGED <<rcDir, rcLines, rcRun>>
    /\ RaceFrame

\* ensure_client(cfg, secret) of run p
RunClient(p) ==
    /\ rcPc[p] = "client"
    /\ \E q \in {bk_client_query(rcRun[p].cfg)} :
       \E g \in {CallId(rcDir, RaceHost, q, "none")} :
       \E made \in {IF g.res.value = ""
                    THEN Call(rcDir, RaceHost, bk_client_create(rcRun[p].cfg),
                              TRUE, "none").dir
                    ELSE rcDir} :
       \E id \in {IF g.res.value = ""
                  THEN CallId(made, RaceHost, q, "none").res.value
                  ELSE g.res.value} :
       \E u \in {Call(made, RaceHost,
                      bk_client_update(rcRun[p].cfg, id, rcRun[p].secret),
                      TRUE, "none")} :
        /\ rcDir' = u.dir
        /\ rcPc' = [rcPc EXCEPT ![p] = IF id = "" \/ u.res.raised THEN "failed"
                                       ELSE "done"]
    /\ rcLast' = [rcLast EXCEPT !.client = p]
    /\ UNCHANGED <<rcFile, rcLines, rcRun, rcStale>>
    /\ RaceFrame

NextRace ==
    \/ \E p \in RaceProcs : SetRead(p)
    \/ \E p \in RaceProcs : SetWrite(p)
    \/ StartRuns
    \/ \E p \in RaceProcs : RunLoad(p)
    \/ \E p \in RaceProcs : RunRead(p)
    \/ \E p \in RaceProcs : RunWrite(p)
    \/ \E p \in RaceProcs : RunClient(p)

SpecRace == InitRace /\ [][NextRace]_vars

\* some line of the file is key=value
Assigned(file, key, value) ==
    \E i \in DOMAIN read_lines(file) : read_lines(file)[i] = key \o "=" \o value

\* the file lacks the assignment one of the two processes made
LostUpdate ==
    \E p \in RaceProcs : ~Assigned(rcFile, RaceKey[p], RaceValue[p])

SettersDone == \A p \in RaceProcs : rcPc[p] = "set_done"

RunsDone == \A p \in RaceProcs : rcPc[p] = "done"

BothGenerated == \A p \in RaceProcs : rcRun[p].secret_generated

\* the secret a load of the file returns
FileSecret == DictGet(load_env(rcFile), SECRET_KEY, "")

\* the secret of the client in the directory, "" if there is no client
DirSecret ==
    LET ids == IdsWhere(rcDir.clients, "clientId", "prosody-backend") IN
    IF ids = {} THEN ""
    ELSE DictGet(rcDir.clients[CHOOSE id \in ids : TRUE], "secret", "")

\* C26: the env store is not locked. When the two set_env_value calls for
\* two different keys have returned, the file holds the assignment of the
\* call that wrote last, and it has lost the other one exactly when that
\* write was made from lines read before the other call wrote (which
\* happens: C26_Witness). When two runs have ended, the directory holds the
\* secret of the run that updated the client last and the file the secret
\* of the run that wrote it last; the two differ only if both runs found
\* the secret missing, and they do differ when both generated, with
\* different secrets, and the last writer is not the last updater.
C26_Unlocked ==
    /\ SettersDone =>
          /\ Assigned(rcFile, RaceKey[rcLast.write], RaceValue[rcLast.write])
          /\ LostUpdate <=> rcStale[rcLast.write]
    /\ RunsDone =>
          /\ DirSecret = rcRun[rcLast.client].secret
          /\ rcLast.write # 0 => FileSecret = rcRun[rcLast.write].secret
          /\ DirSecret # FileSecret => BothGenerated
          /\ (/\ BothGenerated
              /\ rcRun[1].secret # rcRun[2].secret
              /\ rcLast.write # rcLast.client) => DirSecret # FileSecret

\* both races in one behaviour: the file has lost one of the two keys, and
\* after two runs that both generated the directory and the file disagree
C26_Witness ==
    /\ RunsDone
    /\ LostUpdate
    /\ BothGenerated
    /\ DirSecret # FileSecret

====
